---- MODULE Spec2Model ----
(***************************************************************************)
(* Model of the document layout and pagination engine of                   *)
(* src/src/proposta-solar-pdf.ts (buildSolarProposalPDF and its helpers).   *)
(*                                                                         *)
(* Lengths are integers in hundredths of a PDF unit (841.89 -> 84189), so  *)
(* that every coordinate of the source is exact.  Money is in centavos.    *)
(* A text is a sequence of strings: data-derived texts (descriptions,      *)
(* bullets, formatted numbers) are sequences of one-character strings,     *)
(* fixed labels are one-element sequences.                                 *)
(* A page object is identified with its index in the document's page list. *)
(***************************************************************************)
EXTENDS Integers, Sequences, FiniteSets, TLC

(* ------------------------------ bounds ------------------------------ *)
MaxItems == 120       \* longest uniform item list
SmallLen == 2         \* longest mixed item list
MaxDescLen == 95      \* longest description
MaxWrapLen == 6       \* longest text given to wrapLines on its own
MaxWrapWidth == 5     \* largest maxWidth (in steps of 5 units) given to wrapLines on its own
MaxCalls == 4         \* calls of buscarEstados / buscarCidadesPorEstado in one run
MaxClears == 2        \* calls of limparCache in one run

(* ------------------------------ Util ------------------------------ *)
U(n) == n * 100
A4w == 59528
A4h == 84189
M == 4000
\* an optional value (undefined | v) is the empty sequence or <<v>>
None == <<>>
Some(v) == <<v>>
IsSome(o) == o # <<>>

RECURSIVE Digits(_)
Digits(n) == IF n < 10 THEN <<ToString(n)>> ELSE Digits(n \div 10) \o <<ToString(n % 10)>>

Pad(n, k) == LET d == Digits(n) IN [i \in 1..(k - Len(d)) |-> "0"] \o d

RECURSIVE Group(_)
Group(n) == IF n < 1000 THEN Digits(n) ELSE Group(n \div 1000) \o <<".">> \o Pad(n % 1000, 3)

\* Number.prototype.toLocaleString("pt-BR", currency BRL) of an amount in centavos
fmtBRL(v) ==
  (IF v < 0 THEN <<"-">> ELSE <<>>) \o <<"R", "$", " ">>
    \o Group((IF v < 0 THEN -v ELSE v) \div 100) \o <<",">> \o Pad((IF v < 0 THEN -v ELSE v) % 100, 2)

\* v.toFixed(d) of a value given as an integer number of 10^-d units
toFixed(v, d) == IF d = 0 THEN Digits(v) ELSE Digits(v \div (10 ^ d)) \o <<".">> \o Pad(v % (10 ^ d), d)

fmtAnos(v) == toFixed(v, 1) \o <<" anos">>

(* --------------------------- text metrics --------------------------- *)
\* advance width of one glyph in 1/1000 em (Helvetica / Helvetica-Bold AFM classes)
GlyphW(font, c) ==
  IF c = " " THEN 278
  ELSE IF c \in {".", ","} THEN 278
  ELSE IF c = "W" THEN 944
  ELSE IF font = "HelveticaBold" THEN 611 ELSE 556

RECURSIVE SumOver(_, _, _)
SumOver(font, text, ws) ==
  IF ws = {} THEN 0
  ELSE LET w == CHOOSE v \in ws : TRUE
       IN w * Cardinality({k \in 1..Len(text) : GlyphW(font, text[k]) = w}) + SumOver(font, text, ws \ {w})

\* the sum of the advance widths of the glyphs of text
SumGlyphs(font, text) == SumOver(font, text, {GlyphW(font, text[k]) : k \in 1..Len(text)})

\* font.widthOfTextAtSize(text, size), in hundredths of a unit
textWidth(font, text, size) == (SumGlyphs(font, text) * size) \div 10

IsSpace(c) == c \in {" ", "\t", "\n"}

\* text.split(/\s+/): the pieces between maximal whitespace runs; a leading or
\* trailing run leaves an empty first or last piece, and "" splits into <<"">>
SplitWs(text) ==
  LET n == Len(text)
      starts == {k \in 1..n : IsSpace(text[k]) /\ (k = 1 \/ ~IsSpace(text[k - 1]))}
      ends == {k \in 1..n : IsSpace(text[k]) /\ (k = n \/ ~IsSpace(text[k + 1]))}
      Nth(S, j) == CHOOSE x \in S : Cardinality({z \in S : z < x}) = j - 1
      cnt == Cardinality(starts)
      from(j) == IF j = 1 THEN 1 ELSE Nth(ends, j - 1) + 1
      to(j) == IF j = cnt + 1 THEN n ELSE Nth(starts, j) - 1
  IN [j \in 1..(cnt + 1) |-> SubSeq(text, from(j), to(j))]

\* WrapStep measuring the new word alone instead of the candidate line
WrapStep_MeasuresWord(st, w, maxWidth, font, size) ==
  LET test == IF st.buf # <<>> THEN st.buf \o <<" ">> \o w ELSE w IN
  IF textWidth(font, w, size) > maxWidth
  THEN [buf |-> w, lines |-> IF st.buf # <<>> THEN Append(st.lines, st.buf) ELSE st.lines]
  ELSE [buf |-> test, lines |-> st.lines]

\* one iteration of the for loop of wrapLines; st = [buf, lines]
WrapStep(st, w, maxWidth, font, size) ==
  LET test == IF st.buf # <<>> THEN st.buf \o <<" ">> \o w ELSE w IN
  IF textWidth(font, test, size) > maxWidth
  THEN [buf |-> w, lines |-> IF st.buf # <<>> THEN Append(st.lines, st.buf) ELSE st.lines]
  ELSE [buf |-> test, lines |-> st.lines]

RECURSIVE WrapLoop(_, _, _, _, _, _)
WrapLoop(words, i, st, maxWidth, font, size) ==
  IF i > Len(words) THEN st
  ELSE WrapLoop(words, i + 1, WrapStep(st, words[i], maxWidth, font, size), maxWidth, font, size)

\* wrapLines pushing the last buffer without the "if (buf)" test
wrapLines_AlwaysPush(text, maxWidth, font, size) ==
  LET st == WrapLoop(SplitWs(text), 1, [buf |-> <<>>, lines |-> <<>>], maxWidth, font, size) IN
  Append(st.lines, st.buf)

wrapLines(text, maxWidth, font, size) ==
  LET st == WrapLoop(SplitWs(text), 1, [buf |-> <<>>, lines |-> <<>>], maxWidth, font, size) IN
  IF st.buf # <<>> THEN Append(st.lines, st.buf) ELSE st.lines

(* ----------------------- primitive drawing ops ----------------------- *)
\* A page is the sequence of the draw calls made on it, in call order.  Every
\* call records the routine that issued it (by) and its coordinates.
TextOp(by, txt, x, y, size, font) ==
  [op |-> "text", by |-> by, txt |-> txt, x |-> x, y |-> y, size |-> size, font |-> font]
LineOp(by, x, y, x2, y2) == [op |-> "line", by |-> by, x |-> x, y |-> y, x2 |-> x2, y2 |-> y2]
RectOp(by, x, y, w, h) == [op |-> "rect", by |-> by, x |-> x, y |-> y, w |-> w, h |-> h]
ImageOp(by, img, x, y, w, h) ==
  [op |-> "image", by |-> by, img |-> img, x |-> x, y |-> y, w |-> w, h |-> h]
CircleOp(by, x, y) == [op |-> "circle", by |-> by, x |-> x, y |-> y]

\* page.drawXxx(...) on page p of the page list pgs
Draw(pgs, p, o) == [pgs EXCEPT ![p] = Append(@, o)]
\* pdf.addPage([A4.w, A4.h])
addPage(pgs) == Append(pgs, <<>>)

(* --------------------------- items table --------------------------- *)
COLS == << [key |-> "descricao", title |-> "Descricao", w |-> U(300), align |-> "left"],
           [key |-> "qtd", title |-> "Qtde", w |-> U(60), align |-> "right"],
           [key |-> "preco", title |-> "Preco", w |-> U(90), align |-> "right"],
           [key |-> "total", title |-> "Total", w |-> U(90), align |-> "right"] >>

RECURSIVE ColsWidth(_)
ColsWidth(i) == IF i = 0 THEN 0 ELSE ColsWidth(i - 1) + COLS[i].w

RECURSIVE HeaderTitles(_, _, _, _, _)
HeaderTitles(pgs, p, x, y, i) ==
  IF i > Len(COLS) THEN pgs
  ELSE HeaderTitles(Draw(pgs, p, TextOp("drawTableHeader", <<COLS[i].title>>, x + U(2), y, 10, "HelveticaBold")),
                    p, x + COLS[i].w, y, i + 1)

\* drawTableHeader(ctx) with ctx.page = p, ctx.x = x, ctx.y = y
drawTableHeader(pgs, p, x, y) ==
  Draw(HeaderTitles(pgs, p, x, y, 1), p,
       LineOp("drawTableHeader", x, y - U(4), x + ColsWidth(Len(COLS)), y - U(4)))

\* ensureSpace that allocates the page but forgets to repeat the table header
ensureSpace_NoHeader(pgs, pageRef, cursorY, needed) ==
  IF cursorY - needed < M + U(80)
  THEN LET pgs1 == addPage(pgs)
       IN [pages |-> pgs1, pageRef |-> Len(pgs1), cursorY |-> A4h - M - U(14) - U(10)]
  ELSE [pages |-> pgs, pageRef |-> pageRef, cursorY |-> cursorY]

\* ensureSpace that never breaks the page
ensureSpace_NoBreak(pgs, pageRef, cursorY, needed) ==
  [pages |-> pgs, pageRef |-> pageRef, cursorY |-> cursorY]

\* ensureSpace with the comparison inverted
ensureSpace_Inverted(pgs, pageRef, cursorY, needed) ==
  IF cursorY - needed >= M + U(80)
  THEN LET pgs1 == addPage(pgs)
           page == Len(pgs1)
       IN [pages |-> drawTableHeader(pgs1, page, M, (A4h - M) - U(14)),
           pageRef |-> page,
           cursorY |-> A4h - M - U(14) - U(10)]
  ELSE [pages |-> pgs, pageRef |-> pageRef, cursorY |-> cursorY]

\* ensureSpace allocating two pages on a break
ensureSpace_TwoPages(pgs, pageRef, cursorY, needed) ==
  IF cursorY - needed < M + U(80)
  THEN LET pgs1 == addPage(addPage(pgs))
           page == Len(pgs1)
       IN [pages |-> drawTableHeader(pgs1, page, M, (A4h - M) - U(14)),
           pageRef |-> page,
           cursorY |-> A4h - M - U(14) - U(10)]
  ELSE [pages |-> pgs, pageRef |-> pageRef, cursorY |-> cursorY]

\* ensureSpace returning the header baseline, without the 10-unit gap below it
ensureSpace_NoGap(pgs, pageRef, cursorY, needed) ==
  IF cursorY - needed < M + U(80)
  THEN LET pgs1 == addPage(pgs)
           page == Len(pgs1)
       IN [pages |-> drawTableHeader(pgs1, page, M, (A4h - M) - U(14)),
           pageRef |-> page,
           cursorY |-> A4h - M - U(14)]
  ELSE [pages |-> pgs, pageRef |-> pageRef, cursorY |-> cursorY]

\* ensureSpace keeping only the bottom margin free, without the 80-unit reserve
ensureSpace_NoReserve(pgs, pageRef, cursorY, needed) ==
  IF cursorY - needed < M
  THEN LET pgs1 == addPage(pgs)
           page == Len(pgs1)
       IN [pages |-> drawTableHeader(pgs1, page, M, (A4h - M) - U(14)),
           pageRef |-> page,
           cursorY |-> A4h - M - U(14) - U(10)]
  ELSE [pages |-> pgs, pageRef |-> pageRef, cursorY |-> cursorY]

\* ensureSpace(pdf, pageRef, cursorY, needed, ...): the page list, pageRef.page
\* and the returned cursor
ensureSpace(pgs, pageRef, cursorY, needed) ==
  IF cursorY - needed < M + U(80)
  THEN LET pgs1 == addPage(pgs)
           page == Len(pgs1)
       IN [pages |-> drawTableHeader(pgs1, page, M, (A4h - M) - U(14)),
           pageRef |-> page,
           cursorY |-> A4h - M - U(14) - U(10)]
  ELSE [pages |-> pgs, pageRef |-> pageRef, cursorY |-> cursorY]

\* a row height of 22 instead of 20
rowH_Tall == U(22)

rowH == U(20)

\* truncation that keeps 90 characters before the ellipsis
TruncDesc_Keeps90(descricao) ==
  IF Len(descricao) > 90 THEN SubSeq(descricao, 1, 90) \o <<".", ".", ".">> ELSE descricao

\* it.descricao.length > 90 ? it.descricao.slice(0, 87) + "..." : it.descricao
TruncDesc(descricao) ==
  IF Len(descricao) > 90 THEN SubSeq(descricao, 1, 87) \o <<".", ".", ".">> ELSE descricao

\* drawR(text, right) inside the row loop
drawR(pgs, p, text, right, cursorY) ==
  Draw(pgs, p, TextOp("row", text, right - textWidth("Helvetica", text, 10) - U(2), cursorY, 10, "Helvetica"))

\* DrawRow whose running subtotal adds the unit price instead of the line total
DrawRow_AddsUnitPrice(st, ctxPage, it) ==
  LET total == it.qtd * it.precoUnit
      es == ensureSpace(st.pages, st.pageRef, st.cursorY, rowH * 2)
      y == es.cursorY
      x1 == M + COLS[1].w
      x2 == x1 + COLS[2].w
      x3 == x2 + COLS[3].w
      p1 == Draw(es.pages, ctxPage, TextOp("row", TruncDesc(it.descricao), M + U(2), y, 10, "Helvetica"))
      p2 == drawR(p1, ctxPage, Digits(it.qtd), x1 + COLS[2].w, y)
      p3 == drawR(p2, ctxPage, fmtBRL(it.precoUnit), x2 + COLS[3].w, y)
      p4 == drawR(p3, ctxPage, fmtBRL(total), x3 + COLS[4].w, y)
      cy == y - rowH
  IN [pages |-> Draw(p4, ctxPage, LineOp("rowsep", M, cy + U(4), A4w - M, cy + U(4))),
      pageRef |-> es.pageRef,
      cursorY |-> cy,
      subtotal |-> st.subtotal + it.precoUnit]

\* the body of the for loop of drawItemsTable for item it;
\* st = [pages, pageRef, cursorY, subtotal], ctxPage is ctx.page
DrawRow(st, ctxPage, it) ==
  LET total == it.qtd * it.precoUnit
      es == ensureSpace(st.pages, st.pageRef, st.cursorY, rowH * 2)
      y == es.cursorY
      x1 == M + COLS[1].w
      x2 == x1 + COLS[2].w
      x3 == x2 + COLS[3].w
      p1 == Draw(es.pages, ctxPage, TextOp("row", TruncDesc(it.descricao), M + U(2), y, 10, "Helvetica"))
      p2 == drawR(p1, ctxPage, Digits(it.qtd), x1 + COLS[2].w, y)
      p3 == drawR(p2, ctxPage, fmtBRL(it.precoUnit), x2 + COLS[3].w, y)
      p4 == drawR(p3, ctxPage, fmtBRL(total), x3 + COLS[4].w, y)
      cy == y - rowH
  IN [pages |-> Draw(p4, ctxPage, LineOp("rowsep", M, cy + U(4), A4w - M, cy + U(4))),
      pageRef |-> es.pageRef,
      cursorY |-> cy,
      subtotal |-> st.subtotal + total]

\* drawLine(lab, val, bold) of the totals block; st = [pages, cursorY]
drawTotalLine(st, p, lab, val, bold) ==
  LET font == IF bold THEN "HelveticaBold" ELSE "Helvetica"
      rightColX == A4w - M - U(220)
      a == Draw(st.pages, p, TextOp("totals", <<lab>>, rightColX, st.cursorY, 10, font))
      b == Draw(a, p, TextOp("totals", val, A4w - M - textWidth(font, val, 10), st.cursorY, 10, font))
  IN [pages |-> b, cursorY |-> st.cursorY - U(18)]

\* drawItemsTable up to the for loop: section title and table header on
\* ctx.page = pageRef.page
TableBegin(pgs, pageRef) ==
  LET c0 == A4h - U(260)
      t == Draw(pgs, pageRef, TextOp("tableTitle", <<"Itens do Sistema">>, M, c0, 12, "HelveticaBold"))
      c1 == c0 - U(20)
  IN [pages |-> drawTableHeader(t, pageRef, M, c1), pageRef |-> pageRef,
      cursorY |-> c1 - U(16), subtotal |-> 0]

\* drawItemsTable after the for loop: the totals block; st as in DrawRow
TableTotals(st) ==
  LET es == ensureSpace(st.pages, st.pageRef, st.cursorY, U(90))
      rightColX == A4w - M - U(220)
      l1 == drawTotalLine([pages |-> es.pages, cursorY |-> es.cursorY], es.pageRef, "Subtotal", fmtBRL(st.subtotal), FALSE)
      rule == Draw(l1.pages, es.pageRef, LineOp("totals", rightColX, l1.cursorY + U(6), A4w - M, l1.cursorY + U(6)))
      l2 == drawTotalLine([pages |-> rule, cursorY |-> l1.cursorY], es.pageRef, "TOTAL", fmtBRL(st.subtotal), TRUE)
  IN [pages |-> l2.pages, pageRef |-> es.pageRef, subtotal |-> st.subtotal, cursorY |-> l2.cursorY]

(* ------------------------- image embedding ------------------------- *)
\* pdf.embedPng / pdf.embedJpg decode a buffer of their own format only
embedPng(bytes) == IF bytes.fmt = "png" THEN [ok |-> TRUE, img |-> Some(bytes)] ELSE [ok |-> FALSE, err |-> "embedPng"]
embedJpg(bytes) == IF bytes.fmt = "jpg" THEN [ok |-> TRUE, img |-> Some(bytes)] ELSE [ok |-> FALSE, err |-> "embedJpg"]
\* the record of one decoder call on the document
Call(fn, bytes) == [fn |-> fn, bytes |-> bytes]

\* embedImageFlexible without the early return for a missing buffer: the
\* decoders are called on undefined and both throw
embedImageFlexible_NoGuard(bytes) ==
  IF ~IsSome(bytes) THEN [ok |-> FALSE, err |-> "embedJpg", calls |-> <<Call("embedPng", None), Call("embedJpg", None)>>]
  ELSE IF embedPng(bytes[1]).ok
       THEN [ok |-> TRUE, img |-> embedPng(bytes[1]).img, calls |-> <<Call("embedPng", bytes)>>]
       ELSE IF embedJpg(bytes[1]).ok
            THEN [ok |-> TRUE, img |-> embedJpg(bytes[1]).img, calls |-> <<Call("embedPng", bytes), Call("embedJpg", bytes)>>]
            ELSE [ok |-> FALSE, err |-> "embedJpg", calls |-> <<Call("embedPng", bytes), Call("embedJpg", bytes)>>]

\* embedImageFlexible trying the JPEG decoder first and PNG on its failure
embedImageFlexible_JpgFirst(bytes) ==
  IF ~IsSome(bytes) THEN [ok |-> TRUE, img |-> None, calls |-> <<>>]
  ELSE IF embedJpg(bytes[1]).ok
       THEN [ok |-> TRUE, img |-> embedJpg(bytes[1]).img, calls |-> <<Call("embedJpg", bytes)>>]
       ELSE IF embedPng(bytes[1]).ok
            THEN [ok |-> TRUE, img |-> embedPng(bytes[1]).img, calls |-> <<Call("embedJpg", bytes), Call("embedPng", bytes)>>]
            ELSE [ok |-> FALSE, err |-> "embedPng", calls |-> <<Call("embedJpg", bytes), Call("embedPng", bytes)>>]

\* embedImageFlexible(pdf, bytes?): [ok, img] on return, [ok = FALSE, err] on
\* throw; calls are the decoder calls it made, in order
embedImageFlexible(bytes) ==
  IF ~IsSome(bytes) THEN [ok |-> TRUE, img |-> None, calls |-> <<>>]
  ELSE IF embedPng(bytes[1]).ok
       THEN [ok |-> TRUE, img |-> embedPng(bytes[1]).img, calls |-> <<Call("embedPng", bytes)>>]
       ELSE IF embedJpg(bytes[1]).ok
            THEN [ok |-> TRUE, img |-> embedJpg(bytes[1]).img, calls |-> <<Call("embedPng", bytes), Call("embedJpg", bytes)>>]
            ELSE [ok |-> FALSE, err |-> "embedJpg", calls |-> <<Call("embedPng", bytes), Call("embedJpg", bytes)>>]

(* ------------------------- section builders ------------------------- *)
\* drawKpiCard returning the right edge of the card, without the 12-unit gutter
drawKpiCard_NoGutter(pgs, p, x, y, title, value, unit) ==
  LET W == U(120)
      H == U(70)
      PAD == U(10)
      a == Draw(pgs, p, RectOp("drawKpiCard", x, y - H, W, H))
      b == Draw(a, p, TextOp("drawKpiCard", <<title>>, x + PAD, y - PAD - U(14), 9, "Helvetica"))
      c == Draw(b, p, TextOp("drawKpiCard", value, x + PAD, y - PAD - U(32), 16, "HelveticaBold"))
      d == IF IsSome(unit) THEN Draw(c, p, TextOp("drawKpiCard", unit, x + PAD, y - PAD - U(48), 9, "Helvetica")) ELSE c
  IN [pages |-> d, nextX |-> x + W]

\* drawKpiCard(ctx, title, value, unit?) with ctx.page = p, ctx.x = x, ctx.y = y
drawKpiCard(pgs, p, x, y, title, value, unit) ==
  LET W == U(120)
      H == U(70)
      PAD == U(10)
      a == Draw(pgs, p, RectOp("drawKpiCard", x, y - H, W, H))
      b == Draw(a, p, TextOp("drawKpiCard", <<title>>, x + PAD, y - PAD - U(14), 9, "Helvetica"))
      c == Draw(b, p, TextOp("drawKpiCard", value, x + PAD, y - PAD - U(32), 16, "HelveticaBold"))
      d == IF IsSome(unit) THEN Draw(c, p, TextOp("drawKpiCard", unit, x + PAD, y - PAD - U(48), 9, "Helvetica")) ELSE c
  IN [pages |-> d, nextX |-> x + W + U(12)]

\* DrawBullet without the 2-unit gap after the last line of an item
DrawBullet_NoItemGap(st, p, x, it, width) ==
  LET lines == wrapLines(it, width - U(16), "Helvetica", 10)
      a == Draw(st.pages, p, CircleOp("drawBullets", x + U(3), st.y - U(6)))
      b == Draw(a, p, TextOp("drawBullets", lines[1], x + U(12), st.y - U(10), 10, "Helvetica"))
      n == Len(lines) - 1
      RECURSIVE Extra(_, _)
      Extra(pg, k) ==
        IF k > n THEN pg
        ELSE Extra(Draw(pg, p, TextOp("drawBullets", lines[k + 1], x + U(12), (st.y - U(24)) - (k - 1) * U(14), 10, "Helvetica")), k + 1)
  IN IF lines = <<>>
     THEN [ok |-> FALSE, pages |-> a, y |-> st.y, err |-> "drawText"]   \* page.drawText(undefined) throws
     ELSE [ok |-> TRUE, pages |-> Extra(b, 1), y |-> (st.y - U(24)) - n * U(14), err |-> "none"]

\* one iteration of the for loop of drawBullets; st = [ok, pages, y]
DrawBullet(st, p, x, it, width) ==
  LET lines == wrapLines(it, width - U(16), "Helvetica", 10)
      a == Draw(st.pages, p, CircleOp("drawBullets", x + U(3), st.y - U(6)))
      b == Draw(a, p, TextOp("drawBullets", lines[1], x + U(12), st.y - U(10), 10, "Helvetica"))
      n == Len(lines) - 1
      RECURSIVE Extra(_, _)
      Extra(pg, k) ==
        IF k > n THEN pg
        ELSE Extra(Draw(pg, p, TextOp("drawBullets", lines[k + 1], x + U(12), (st.y - U(24)) - (k - 1) * U(14), 10, "Helvetica")), k + 1)
  IN IF lines = <<>>
     THEN [ok |-> FALSE, pages |-> a, y |-> st.y, err |-> "drawText"]   \* page.drawText(undefined) throws
     ELSE [ok |-> TRUE, pages |-> Extra(b, 1), y |-> ((st.y - U(24)) - n * U(14)) - U(2), err |-> "none"]

RECURSIVE DrawBulletsFrom(_, _, _, _, _, _)
DrawBulletsFrom(st, p, x, items, width, i) ==
  IF i > Len(items) \/ ~st.ok THEN st
  ELSE DrawBulletsFrom(DrawBullet(st, p, x, items[i], width), p, x, items, width, i + 1)

\* drawBullets(ctx, items, width) with ctx.page = p, ctx.x = x, ctx.y = y
drawBullets(pgs, p, x, y, items, width) ==
  DrawBulletsFrom([ok |-> TRUE, pages |-> pgs, y |-> y, err |-> "none"], p, x, items, width, 1)

\* drawSectionBullets(pdf, page, helv, helvB, title, bullets, startY)
drawSectionBullets(pgs, p, title, bullets, startY) ==
  drawBullets(Draw(pgs, p, TextOp("drawSectionBullets", <<title>>, M, startY, 12, "HelveticaBold")),
              p, M, startY - U(18), bullets, A4w - 2 * M)

\* addFooter(page, helv, company, pageNum)
addFooter(pgs, p, company, pageNum) ==
  LET a == Draw(pgs, p, LineOp("addFooter", M, M + U(24), A4w - M, M + U(24)))
      info == <<company.nome>> \o (IF IsSome(company.contato) THEN <<" * ", company.contato[1]>> ELSE <<>>)
      b == Draw(a, p, TextOp("addFooter", info, M, M + U(10), 9, "Helvetica"))
  IN Draw(b, p, TextOp("addFooter", Digits(pageNum), A4w - M - U(10), M + U(10), 9, "Helvetica"))

\* drawCover(pdf, page, helv, helvB, data, assets): [ok, pages] / [ok = FALSE, err],
\* with the decoder calls made
drawCover(pgs, p, data, assets) ==
  LET e == embedImageFlexible(assets.logo)
      y0 == A4h - M
      hasLogo == e.ok /\ IsSome(e.img)
      H == IF hasLogo THEN (e.img[1].height * U(140)) \div e.img[1].width ELSE 0
      a == IF hasLogo THEN Draw(pgs, p, ImageOp("drawCover", e.img[1], M, y0 - H, U(140), H)) ELSE pgs
      y1 == IF hasLogo THEN y0 - (H + U(12)) ELSE y0
      b == Draw(a, p, TextOp("drawCover", <<data.titulo>>, M, y1 - U(24), 22, "HelveticaBold"))
      y2 == y1 - U(44)
      c == Draw(b, p, TextOp("drawCover",
                 <<data.company.nome>> \o (IF IsSome(data.company.cnpj) THEN <<" * CNPJ ", data.company.cnpj[1]>> ELSE <<>>),
                 M, y2, 11, "Helvetica"))
      y3 == y2 - U(18)
      d == Draw(c, p, TextOp("drawCover",
                 <<"Cliente: ", data.client.nome>> \o (IF IsSome(data.client.documento) THEN <<" * ", data.client.documento[1]>> ELSE <<>>),
                 M, y3, 11, "Helvetica"))
      y4 == y3 - U(18)
      f == Draw(d, p, TextOp("drawCover", <<"Data: ", "toLocaleDateString", data.dataISO>>, M, y4, 11, "Helvetica"))
      kx == M
      ky == A4h - U(260) + U(40)
      kpis == data.kpis
      k1 == drawKpiCard(f, p, kx, ky, "Potencia do Sistema", toFixed(kpis.potenciaKWp, 2) \o <<" kWp">>, None).pages
      k2 == drawKpiCard(k1, p, kx + U(132), ky, "Geracao Mensal", toFixed(kpis.energiaMensalKWh, 0) \o <<" kWh/mes">>, None).pages
      k3 == drawKpiCard(k2, p, kx + U(132) + U(132), ky, "Economia Anual", fmtBRL(kpis.economiaAnualBRL), None).pages
      tir == IF IsSome(kpis.tirPercent) THEN <<" * TIR ">> \o toFixed(kpis.tirPercent[1], 1) \o <<"%">> ELSE <<>>
      k4 == drawKpiCard(k3, p, kx + U(132) + U(132) + U(132), ky, "Payback Estimado", fmtAnos(kpis.paybackAnos) \o tir, None).pages
  IN IF ~e.ok THEN [ok |-> FALSE, pages |-> pgs, err |-> e.err, calls |-> e.calls]
     ELSE [ok |-> TRUE, err |-> "none", calls |-> e.calls,
           pages |-> Draw(k4, p, LineOp("drawCover", M, A4h - U(260), A4w - M, A4h - U(260)))]

\* one chart panel of drawCharts: caption and image scaled by min(W / width, H / height)
DrawPanel(pgs, p, img, caption, x, y, W, H) ==
  IF ~IsSome(img) THEN pgs
  ELSE LET byWidth == W * img[1].height <= H * img[1].width
           w == IF byWidth THEN W ELSE (img[1].width * H) \div img[1].height
           h == IF byWidth THEN (img[1].height * W) \div img[1].width ELSE H
       IN Draw(Draw(pgs, p, TextOp("drawCharts", <<caption>>, x, y - U(12), 10, "Helvetica")),
               p, ImageOp("drawCharts", img[1], x, y - h - U(18), w, h))

\* drawCharts(pdf, page, helv, helvB, charts?): [ok, pages] / [ok = FALSE, err],
\* with the decoder calls made
drawCharts(pgs, p, charts) ==
  LET pay == embedImageFlexible(IF IsSome(charts) THEN charts[1].paybackChart ELSE None)
      gen == embedImageFlexible(IF IsSome(charts) THEN charts[1].geracaoAnualChart ELSE None)
      y0 == A4h - M - U(10)
      a == Draw(pgs, p, TextOp("drawCharts", <<"Graficos">>, M, y0, 12, "HelveticaBold"))
      y == y0 - U(20)
      W == (A4w - M * 2 - U(12)) \div 2
      H == U(240)
      b == DrawPanel(a, p, pay.img, "Payback (fluxo de caixa)", M, y, W, H)
      c == DrawPanel(b, p, gen.img, "Geracao Anual (kWh)", M + W + U(12), y, W, H)
      boxY == y - H - U(40)
      d == Draw(c, p, RectOp("drawCharts", M, boxY - U(120), A4w - 2 * M, U(120)))
  IN IF ~pay.ok THEN [ok |-> FALSE, pages |-> pgs, err |-> pay.err, calls |-> pay.calls]
     ELSE IF ~gen.ok THEN [ok |-> FALSE, pages |-> pgs, err |-> gen.err, calls |-> pay.calls \o gen.calls]
     ELSE [ok |-> TRUE, err |-> "none", calls |-> pay.calls \o gen.calls,
           pages |-> Draw(d, p, TextOp("drawCharts", <<"Notas e Premissas">>, M + U(10), boxY - U(16), 11, "HelveticaBold"))]

(* ------------------------------ inputs ------------------------------ *)
Chars == <<"a", "b", "c", "d", "e", "f", "g", "h", "i", "j">>
\* a description of L characters whose i-th character depends on i
DescOfLen(L) == [i \in 1..L |-> Chars[((i - 1) % Len(Chars)) + 1]]
\* n words of k characters separated by single spaces
RECURSIVE WordsText(_, _)
WordsText(n, k) == IF n = 0 THEN <<>>
                   ELSE IF n = 1 THEN DescOfLen(k)
                   ELSE WordsText(n - 1, k) \o <<" ">> \o DescOfLen(k)

ModuleItem == [descricao |-> <<"M", "o", "d", "u", "l", "e">>, qtd |-> 10, precoUnit |-> 89900]
ItemChoices == { [descricao |-> DescOfLen(90), qtd |-> 1, precoUnit |-> 520000],
                 [descricao |-> DescOfLen(91), qtd |-> 2, precoUnit |-> 5],
                 [descricao |-> DescOfLen(MaxDescLen), qtd |-> 3, precoUnit |-> 123456] }

RECURSIVE SeqsUpTo(_, _)
SeqsUpTo(S, n) == IF n = 0 THEN {<<>>}
                  ELSE SeqsUpTo(S, n - 1) \cup {Append(q, e) : q \in SeqsUpTo(S, n - 1), e \in S}

PngBuf == [fmt |-> "png", width |-> 800, height |-> 500]
JpgBuf == [fmt |-> "jpg", width |-> 300, height |-> 400]
BadBuf == [fmt |-> "bad", width |-> 0, height |-> 0]
Buffers == {None, Some(PngBuf), Some(JpgBuf), Some(BadBuf)}
ChartBundles == {None} \cup {Some([paybackChart |-> a, geracaoAnualChart |-> b]) : a, b \in Buffers}
AssetBundles == [logo : Buffers, charts : ChartBundles]

ShortBullet == WordsText(2, 4)
LongBullet == WordsText(10, 9)
BlankBullet == <<" ">>
PremissasChoices == {None, Some(<<ShortBullet>>), Some(<<LongBullet, ShortBullet>>)}
ObservacoesChoices == {None, Some(<<>>), Some(<<LongBullet>>), Some(<<BlankBullet>>)}

Company == [nome |-> "MAYER Design Co.", cnpj |-> Some("49.136.647/0001-34"), contato |-> Some("(49) 99133-6328")]
Client == [nome |-> "Cliente Exemplo S/A", documento |-> None]
Kpis == [potenciaKWp |-> 550, energiaMensalKWh |-> 720, economiaAnualBRL |-> 820000,
         paybackAnos |-> 43, tirPercent |-> Some(231)]

Record(its, ob, pr) ==
  [titulo |-> "Proposta Comercial", dataISO |-> "2025-01-31", company |-> Company,
   client |-> Client, kpis |-> Kpis, itens |-> its, observacoes |-> ob, premissasTecnicas |-> pr]

\* at most one item, with every asset bundle and bullet choice
ContentInputs ==
  { <<Record(its, ob, pr), a>> :
      its \in SeqsUpTo(ItemChoices, 1), ob \in ObservacoesChoices,
      pr \in PremissasChoices, a \in AssetBundles }

\* short mixed item lists, with every logo
MixedInputs ==
  { <<Record(its, None, None), [logo |-> l, charts |-> None]>> :
      its \in SeqsUpTo(ItemChoices, SmallLen), l \in Buffers }

\* long lists of one item, without and with images
PaginationInputs ==
  { <<Record([i \in 1..n |-> ModuleItem], None, None), a>> :
      n \in 0..MaxItems,
      a \in { [logo |-> None, charts |-> None],
              [logo |-> Some(PngBuf),
               charts |-> Some([paybackChart |-> Some(PngBuf), geracaoAnualChart |-> Some(JpgBuf)])] } }

Inputs == ContentInputs \cup MixedInputs \cup PaginationInputs

(* ------------------ chart-generator.ts: the two generators ------------------ *)
\* A JavaScript number: NaN, or a finite value held in thousandths
NaN == [nan |-> TRUE, v |-> 0]
Num(v) == [nan |-> FALSE, v |-> v]
\* !x, x <= k, x > k and x < k as JavaScript evaluates them: a comparison
\* with NaN is false, and !x is true for 0 and NaN
Falsy(x) == x.nan \/ x.v = 0
Le(x, k) == ~x.nan /\ x.v <= k
Gt(x, k) == ~x.nan /\ x.v > k
Lt(x, k) == ~x.nan /\ x.v < k
\* a parameter with a default value: undefined takes the default
OrDefault(o, d) == IF IsSome(o) THEN o[1] ELSE d

\* the "anos" and "width / height" checks shared by the two generators
AnosRejected(a) ==
  LET anos == OrDefault(a.anos, Num(25000)) IN Falsy(anos) \/ Le(anos, 0) \/ Gt(anos, 50000)
DimsRejected(a) ==
  LET width == OrDefault(a.width, Num(600000))
      height == OrDefault(a.height, Num(400000))
  IN Falsy(width) \/ Le(width, 0) \/ Falsy(height) \/ Le(height, 0)

\* the validation block of generatePaybackChart: the message thrown, or "ok"
validatePayback(a) ==
  IF Falsy(a.capexBRL) \/ Le(a.capexBRL, 0) THEN "CAPEX deve ser maior que zero"
  ELSE IF Falsy(a.economiaAnualBRL) \/ Le(a.economiaAnualBRL, 0) THEN "Economia anual deve ser maior que zero"
  ELSE IF AnosRejected(a) THEN "Periodo de analise deve estar entre 1 e 50 anos"
  ELSE IF DimsRejected(a) THEN "Dimensoes do grafico devem ser maiores que zero"
  ELSE "ok"

\* the validation block of generateGeracaoAnualChart
validateGeracao(a) ==
  LET degradacaoAnual == OrDefault(a.degradacaoAnual, Num(5)) IN
  IF Falsy(a.energiaMensalKWh) \/ Le(a.energiaMensalKWh, 0) THEN "Energia mensal deve ser maior que zero"
  ELSE IF Lt(degradacaoAnual, 0) \/ Gt(degradacaoAnual, 50) THEN "Degradacao anual deve estar entre 0% e 5%"
  ELSE IF AnosRejected(a) THEN "Periodo de analise deve estar entre 1 e 50 anos"
  ELSE IF DimsRejected(a) THEN "Dimensoes do grafico devem ser maiores que zero"
  ELSE "ok"

validate(a) == IF a.fn = "generatePaybackChart" THEN validatePayback(a) ELSE validateGeracao(a)

\* arguments of the calls checked
Amounts == {NaN, Num(-1000), Num(0), Num(8200000)}
AnosChoices ==
  {None} \cup {Some(n) : n \in {NaN, Num(-1000), Num(0), Num(500), Num(1000), Num(25000),
                                Num(50000), Num(50500), Num(51000)}}
DegradacaoChoices == {None} \cup {Some(d) : d \in {NaN, Num(-1), Num(0), Num(5), Num(50), Num(51)}}
DimChoices == {None, Some(Num(0)), Some(Num(800000))}
GenArgs(fn, capex, economia, energia, degradacao, anos, width, height) ==
  [fn |-> fn, capexBRL |-> capex, economiaAnualBRL |-> economia, energiaMensalKWh |-> energia,
   degradacaoAnual |-> degradacao, anos |-> anos, width |-> width, height |-> height]
PaybackInputs ==
  { GenArgs("generatePaybackChart", c, e, Num(0), None, n, w, Some(Num(500000))) :
      c \in Amounts, e \in Amounts, n \in AnosChoices, w \in DimChoices }
GeracaoInputs ==
  { GenArgs("generateGeracaoAnualChart", Num(0), Num(0), e, d, n, w, Some(Num(500000))) :
      e \in Amounts, d \in DegradacaoChoices, n \in AnosChoices, w \in DimChoices }
GenInputs == PaybackInputs \cup GeracaoInputs

\* a generator call: position, canvases and charts created, whether a chart is
\* alive, the bytes returned and the message thrown
GenIdle == [pc |-> "idle", canvases |-> 0, charts |-> 0, live |-> FALSE, out |-> None, err |-> "none"]

(* --------------------- locationService: the lookup cache --------------------- *)
Callers == 1..2
UFs == {"SC", "PR"}
\* "estados" is the key of buscarEstados, a UF the key of buscarCidadesPorEstado(UF)
Keys == {"estados"} \cup UFs

\* response bodies of the IBGE API
ApiEstados ==
  { <<>>,
    <<[id |-> 41, sigla |-> "PR", nome |-> "Parana"], [id |-> 42, sigla |-> "SC", nome |-> "Santa Catarina"]>> }
ApiCidades(uf) ==
  { <<>>,
    <<[id |-> 1, nome |-> "Capital", microrregiao |-> [mesorregiao |-> [UF |-> [sigla |-> uf]]]]>> }
ApiBodies(k) == IF k = "estados" THEN ApiEstados ELSE ApiCidades(k)
\* cidadesCompletas.map(cidade => ({ id, nome }))
Simplifica(cidades) == [j \in 1..Len(cidades) |-> [id |-> cidades[j].id, nome |-> cidades[j].nome]]

\* the lists returned from the catch blocks
FallbackEstados ==
  << [id |-> 42, sigla |-> "SC", nome |-> "Santa Catarina"],
     [id |-> 43, sigla |-> "RS", nome |-> "Rio Grande do Sul"],
     [id |-> 41, sigla |-> "PR", nome |-> "Parana"],
     [id |-> 35, sigla |-> "SP", nome |-> "Sao Paulo"],
     [id |-> 33, sigla |-> "RJ", nome |-> "Rio de Janeiro"],
     [id |-> 31, sigla |-> "MG", nome |-> "Minas Gerais"] >>
FallbackCidades(uf) ==
  IF uf = "SC"
  THEN << [id |-> 4202404, nome |-> "Apiuna"],
          [id |-> 4218707, nome |-> "Sao Miguel do Oeste"],
          [id |-> 4204202, nome |-> "Chapeco"],
          [id |-> 4202404, nome |-> "Blumenau"],
          [id |-> 4209102, nome |-> "Joinville"],
          [id |-> 4205407, nome |-> "Florianopolis"] >>
  ELSE <<>>
Fallback(k) == IF k = "estados" THEN FallbackEstados ELSE FallbackCidades(k)

\* const cache = { estados: null, cidades: new Map() }; a Map entry is None when absent
EmptyCache == [estados |-> None, cidades |-> [u \in UFs |-> None]]
\* cache.estados / cache.cidades.get(k);  "if (cache.estados)" and cache.cidades.has(k) are IsSome of it
CacheGet(c, k) == IF k = "estados" THEN c.estados ELSE c.cidades[k]
\* cache.estados = v / cache.cidades.set(k, v)
CachePut(c, k, v) == IF k = "estados" THEN [c EXCEPT !.estados = Some(v)] ELSE [c EXCEPT !.cidades[k] = Some(v)]

\* a caller that has no call in progress and has made none
IdleCaller == [pc |-> "idle", key |-> "none", ret |-> None, via |-> "none"]
\* counts since the last limparCache, per key: calls made, network requests
\* issued, fetches that succeeded and that failed; and the totals of the run
NoTraffic ==
  [calls |-> [k \in Keys |-> 0], requests |-> [k \in Keys |-> 0], oks |-> [k \in Keys |-> 0],
   fails |-> [k \in Keys |-> 0], clears |-> 0, total |-> 0]

(* ------------------------------ state ------------------------------ *)
VARIABLES
  data,      \* the SolarProposalData argument
  assets,    \* the Assets argument
  pc,        \* position in buildSolarProposalPDF / drawItemsTable
  pages,     \* pdf's page list; each page is its sequence of draw calls
  fonts,     \* [helv, helvB]: the embedded font handles
  pageRef,   \* pageRef.page (0 before the items step)
  ctxPage,   \* ctx.page of drawItemsTable (0 before the items step)
  i,         \* index of the next item of the for loop of drawItemsTable
  cursorY,   \* cursorY of drawItemsTable
  subtotal,  \* subtotal of drawItemsTable
  y,         \* the cursor of the final page
  meta,      \* document metadata
  error,     \* [step, err] of the exception that ended the build
  result,    \* the value the build resolved with
  decodes,   \* the pdf.embedPng / pdf.embedJpg calls made so far, in order
  wIn,       \* arguments of a stand-alone wrapLines call
  wOut,      \* its result
  gIn,       \* arguments of a chart generator call
  gen,       \* the state of that call
  cache,     \* the module-level cache of the location service
  procs,     \* the calls of the location service in progress, per caller
  net        \* calls, network requests and fetch outcomes since the last limparCache

vars == <<data, assets, pc, pages, fonts, pageRef, ctxPage, i, cursorY, subtotal, y, meta,
          error, result, decodes, wIn, wOut, gIn, gen, cache, procs, net>>
buildVars == <<data, assets, pc, pages, fonts, pageRef, ctxPage, i, cursorY, subtotal, y, meta,
               error, result, decodes>>
wrapVars == <<wIn, wOut>>
genVars == <<gIn, gen>>
locVars == <<cache, procs, net>>
\* no chart generator call and no location lookup is part of the run
NoGen == gIn = None /\ gen = GenIdle
NoLoc == cache = EmptyCache /\ procs = [p \in Callers |-> IdleCaller] /\ net = NoTraffic

NoError == [step |-> "none", err |-> "none"]

Blank ==
  /\ pages = <<>>
  /\ fonts = [helv |-> None, helvB |-> None]
  /\ pageRef = 0
  /\ ctxPage = 0
  /\ i = 0
  /\ cursorY = 0
  /\ subtotal = 0
  /\ y = 0
  /\ meta = None
  /\ error = NoError
  /\ result = None
  /\ decodes = <<>>

Init ==
  /\ \E in \in Inputs : data = in[1] /\ assets = in[2]
  /\ pc = "start"
  /\ Blank
  /\ wIn = None /\ wOut = None
  /\ NoGen /\ NoLoc

(* ---------------------- buildSolarProposalPDF ---------------------- *)
Fail(step, err, pgs) ==
  /\ pc' = "failed"
  /\ error' = [step |-> step, err |-> err]
  /\ pages' = pgs

\* PDFDocument.create() and the two pdf.embedFont calls; an embedFont may reject
EmbedFonts ==
  /\ pc = "start"
  /\ \E ok \in BOOLEAN :
       IF ok THEN /\ fonts' = [helv |-> Some("Helvetica"), helvB |-> Some("HelveticaBold")]
                  /\ pc' = "cover"
                  /\ UNCHANGED <<pages, error>>
             ELSE /\ Fail("embedFont", "embedFont", pages)
                  /\ UNCHANGED fonts
  /\ UNCHANGED <<data, assets, pageRef, ctxPage, i, cursorY, subtotal, y, meta, result, decodes, wrapVars, genVars, locVars>>

\* the cover step with the footer drawn before the cover
CoverStep_FooterFirst ==
  /\ pc = "cover"
  /\ LET pgs == addPage(pages)
         page == Len(pgs)
         c == drawCover(addFooter(pgs, page, data.company, 1), page, data, assets)
     IN IF c.ok THEN /\ pages' = c.pages
                     /\ pc' = "itens"
                     /\ UNCHANGED error
                ELSE Fail("drawCover", c.err, c.pages)
  /\ decodes' = decodes \o drawCover(addPage(pages), Len(pages) + 1, data, assets).calls
  /\ UNCHANGED <<data, assets, fonts, pageRef, ctxPage, i, cursorY, subtotal, y, meta, result, wrapVars, genVars, locVars>>

\* CAPA / RESUMO: addPage, drawCover, addFooter(page, ..., 1)
CoverStep ==
  /\ pc = "cover"
  /\ LET pgs == addPage(pages)
         page == Len(pgs)
         c == drawCover(pgs, page, data, assets)
     IN IF c.ok THEN /\ pages' = addFooter(c.pages, page, data.company, 1)
                     /\ pc' = "itens"
                     /\ UNCHANGED error
                ELSE Fail("drawCover", c.err, c.pages)
  /\ decodes' = decodes \o drawCover(addPage(pages), Len(pages) + 1, data, assets).calls
  /\ UNCHANGED <<data, assets, fonts, pageRef, ctxPage, i, cursorY, subtotal, y, meta, result, wrapVars, genVars, locVars>>

\* ITENS: addPage, pageRef = { page }, and drawItemsTable up to its for loop
ItensBegin ==
  /\ pc = "itens"
  /\ LET pgs == addPage(pages)
         t == TableBegin(pgs, Len(pgs))
     IN /\ pages' = t.pages
        /\ pageRef' = t.pageRef
        /\ ctxPage' = t.pageRef
        /\ cursorY' = t.cursorY
        /\ subtotal' = t.subtotal
  /\ i' = 1
  /\ pc' = "rows"
  /\ UNCHANGED <<data, assets, fonts, y, meta, error, result, decodes, wrapVars, genVars, locVars>>

\* RowStep storing the truncated description back into the item
RowStep_TruncatesInPlace ==
  /\ pc = "rows"
  /\ i <= Len(data.itens)
  /\ LET r == DrawRow([pages |-> pages, pageRef |-> pageRef, cursorY |-> cursorY, subtotal |-> subtotal],
                      ctxPage, data.itens[i])
     IN /\ pages' = r.pages
        /\ pageRef' = r.pageRef
        /\ cursorY' = r.cursorY
        /\ subtotal' = r.subtotal
  /\ data' = [data EXCEPT !.itens[i].descricao = TruncDesc(@)]
  /\ i' = i + 1
  /\ UNCHANGED <<assets, pc, fonts, ctxPage, y, meta, error, result, decodes, wrapVars, genVars, locVars>>

\* one iteration of the for loop of drawItemsTable
RowStep ==
  /\ pc = "rows"
  /\ i <= Len(data.itens)
  /\ LET r == DrawRow([pages |-> pages, pageRef |-> pageRef, cursorY |-> cursorY, subtotal |-> subtotal],
                      ctxPage, data.itens[i])
     IN /\ pages' = r.pages
        /\ pageRef' = r.pageRef
        /\ cursorY' = r.cursorY
        /\ subtotal' = r.subtotal
  /\ i' = i + 1
  /\ UNCHANGED <<data, assets, pc, fonts, ctxPage, y, meta, error, result, decodes, wrapVars, genVars, locVars>>

\* the totals block of drawItemsTable, its return, and addFooter(pageRef.page, ..., 2)
ItensEnd ==
  /\ pc = "rows"
  /\ i > Len(data.itens)
  /\ LET t == TableTotals([pages |-> pages, pageRef |-> pageRef, cursorY |-> cursorY, subtotal |-> subtotal])
     IN /\ pages' = addFooter(t.pages, t.pageRef, data.company, 2)
        /\ pageRef' = t.pageRef
        /\ cursorY' = t.cursorY
        /\ subtotal' = t.subtotal
  /\ pc' = "charts"
  /\ UNCHANGED <<data, assets, fonts, ctxPage, i, y, meta, error, result, decodes, wrapVars, genVars, locVars>>

\* GRAFICOS + PREMISSAS/OBS: addPage, drawCharts, the two optional bulleted
\* sections, addFooter(page, ..., 3)
ChartsStep ==
  /\ pc = "charts"
  /\ LET pgs == addPage(pages)
         page == Len(pgs)
         c == drawCharts(pgs, page, assets.charts)
         y0 == A4h - U(430)
         hasPrem == IsSome(data.premissasTecnicas) /\ Len(data.premissasTecnicas[1]) > 0
         prem == IF hasPrem
                 THEN drawSectionBullets(c.pages, page, "Premissas Tecnicas", data.premissasTecnicas[1], y0)
                 ELSE [ok |-> TRUE, pages |-> c.pages, y |-> y0, err |-> "none"]
         y1 == IF hasPrem THEN prem.y - U(12) ELSE y0
         hasObs == IsSome(data.observacoes) /\ Len(data.observacoes[1]) > 0
         obs == IF hasObs
                THEN drawSectionBullets(prem.pages, page, "Observacoes", data.observacoes[1], y1)
                ELSE [ok |-> TRUE, pages |-> prem.pages, y |-> y1, err |-> "none"]
     IN IF ~c.ok THEN Fail("drawCharts", c.err, c.pages) /\ UNCHANGED y
        ELSE IF ~prem.ok THEN Fail("drawSectionBullets", prem.err, prem.pages) /\ UNCHANGED y
        ELSE IF ~obs.ok THEN Fail("drawSectionBullets", obs.err, obs.pages) /\ y' = y1
        ELSE /\ pages' = addFooter(obs.pages, page, data.company, 3)
             /\ y' = obs.y
             /\ pc' = "meta"
             /\ UNCHANGED error
  /\ decodes' = decodes \o drawCharts(addPage(pages), Len(pages) + 1, assets.charts).calls
  /\ UNCHANGED <<data, assets, fonts, pageRef, ctxPage, i, cursorY, subtotal, meta, result, wrapVars, genVars, locVars>>

\* pdf.setTitle / setAuthor / setSubject
SetMetadata ==
  /\ pc = "meta"
  /\ meta' = Some([title |-> data.titulo, author |-> data.company.nome,
                   subject |-> "Proposta de sistema fotovoltaico"])
  /\ pc' = "save"
  /\ UNCHANGED <<data, assets, pages, fonts, pageRef, ctxPage, i, cursorY, subtotal, y, error, result, decodes, wrapVars, genVars, locVars>>

\* pdf.save() moved into a finally block: it also runs after a step threw
Save_InFinally ==
  /\ pc \in {"save", "failed"}
  /\ result' = Some("bytes")
  /\ pc' = "done"
  /\ UNCHANGED <<data, assets, pages, fonts, pageRef, ctxPage, i, cursorY, subtotal, y, meta, error, decodes, wrapVars, genVars, locVars>>

\* return await pdf.save()
Save ==
  /\ pc = "save"
  /\ result' = Some("bytes")
  /\ pc' = "done"
  /\ UNCHANGED <<data, assets, pages, fonts, pageRef, ctxPage, i, cursorY, subtotal, y, meta, error, decodes, wrapVars, genVars, locVars>>

Next == EmbedFonts \/ CoverStep \/ ItensBegin \/ RowStep \/ ItensEnd \/ ChartsStep \/ SetMetadata \/ Save

Spec == Init /\ [][Next]_vars

(* ----------------------- wrapLines on its own ----------------------- *)
WrapAlphabet == {"a", "W", " "}
WrapFonts == {"Helvetica", "HelveticaBold"}
WrapInputs ==
  { [text |-> t, maxWidth |-> m * 500, font |-> f, size |-> 10] :
      t \in SeqsUpTo(WrapAlphabet, MaxWrapLen), m \in 0..MaxWrapWidth, f \in WrapFonts }

InitWrap ==
  /\ wIn \in {Some(in) : in \in WrapInputs}
  /\ wOut = None
  /\ data = Record(<<>>, None, None)
  /\ assets = [logo |-> None, charts |-> None]
  /\ pc = "idle"
  /\ Blank
  /\ NoGen /\ NoLoc

CallWrapLines ==
  /\ IsSome(wIn) /\ ~IsSome(wOut)
  /\ wOut' = Some(wrapLines(wIn[1].text, wIn[1].maxWidth, wIn[1].font, wIn[1].size))
  /\ UNCHANGED <<wIn, buildVars, genVars, locVars>>

NextWrap == CallWrapLines

SpecWrap == InitWrap /\ [][NextWrap]_vars

(* ------------------- the chart generators on their own ------------------- *)
NoBuild ==
  /\ data = Record(<<>>, None, None)
  /\ assets = [logo |-> None, charts |-> None]
  /\ pc = "idle"
  /\ Blank
  /\ wIn = None /\ wOut = None

InitGen ==
  /\ gIn \in {Some(a) : a \in GenInputs}
  /\ gen = [GenIdle EXCEPT !.pc = "validate"]
  /\ NoBuild /\ NoLoc

\* the "Validacao de entrada" block: throw, or go on to createCanvas
GenValidate ==
  /\ gen.pc = "validate"
  /\ gen' = IF validate(gIn[1]) = "ok" THEN [gen EXCEPT !.pc = "canvas"]
            ELSE [gen EXCEPT !.pc = "failed", !.err = validate(gIn[1])]
  /\ UNCHANGED <<gIn, buildVars, wrapVars, locVars>>

\* createCanvas(width, height), getContext, and the data sets
GenCreateCanvas ==
  /\ gen.pc = "canvas"
  /\ gen' = [gen EXCEPT !.pc = "chart", !.canvases = @ + 1]
  /\ UNCHANGED <<gIn, buildVars, wrapVars, locVars>>

\* chart = new Chart(ctx, config); when it throws, catch rethrows and finally
\* finds no chart to destroy
GenNewChart ==
  /\ gen.pc = "chart"
  /\ \E ok \in BOOLEAN :
       gen' = IF ok THEN [gen EXCEPT !.pc = "render", !.charts = @ + 1, !.live = TRUE]
              ELSE [gen EXCEPT !.pc = "failed", !.err = "Falha na geracao do grafico"]
  /\ UNCHANGED <<gIn, buildVars, wrapVars, locVars>>

\* the wait, canvas.toBuffer('image/png') and the return; finally destroys the chart
GenToBuffer ==
  /\ gen.pc = "render"
  /\ \E ok \in BOOLEAN :
       gen' = IF ok THEN [gen EXCEPT !.pc = "done", !.live = FALSE, !.out = Some("png")]
              ELSE [gen EXCEPT !.pc = "failed", !.live = FALSE, !.err = "Falha na geracao do grafico"]
  /\ UNCHANGED <<gIn, buildVars, wrapVars, locVars>>

NextGen == GenValidate \/ GenCreateCanvas \/ GenNewChart \/ GenToBuffer

SpecGen == InitGen /\ [][NextGen]_vars

(* ------------------- the location service on its own ------------------- *)
InitLoc ==
  /\ NoLoc
  /\ NoBuild /\ NoGen

\* buscarEstados() / buscarCidadesPorEstado(k) up to its first await: return
\* the cached list, or call fetch
BuscarStart(p, k) ==
  /\ procs[p].pc \in {"idle", "done"}
  /\ net.total < MaxCalls
  /\ IF IsSome(CacheGet(cache, k))
     THEN /\ procs' = [procs EXCEPT ![p] = [pc |-> "done", key |-> k, ret |-> CacheGet(cache, k), via |-> "cache"]]
          /\ net' = [net EXCEPT !.calls[k] = @ + 1, !.total = @ + 1]
     ELSE /\ procs' = [procs EXCEPT ![p] = [pc |-> "fetching", key |-> k, ret |-> None, via |-> "none"]]
          /\ net' = [net EXCEPT !.calls[k] = @ + 1, !.total = @ + 1, !.requests[k] = @ + 1]
  /\ UNCHANGED <<cache, buildVars, wrapVars, genVars>>

\* the response is OK and its JSON body is body: store the list and return it
BuscarOk(p, body) ==
  /\ procs[p].pc = "fetching"
  /\ body \in ApiBodies(procs[p].key)
  /\ LET k == procs[p].key
         list == IF k = "estados" THEN body ELSE Simplifica(body)
     IN /\ cache' = CachePut(cache, k, list)
        /\ procs' = [procs EXCEPT ![p] = [pc |-> "done", key |-> k, ret |-> Some(list), via |-> "fetch"]]
        /\ net' = [net EXCEPT !.oks[k] = @ + 1]
  /\ UNCHANGED <<buildVars, wrapVars, genVars>>

\* BuscarFail that stores the fallback list in the cache
BuscarFail_CachesFallback(p) ==
  /\ procs[p].pc = "fetching"
  /\ LET k == procs[p].key
     IN /\ procs' = [procs EXCEPT ![p] = [pc |-> "done", key |-> k, ret |-> Some(Fallback(k)), via |-> "fallback"]]
        /\ net' = [net EXCEPT !.fails[k] = @ + 1]
        /\ cache' = CachePut(cache, k, Fallback(k))
  /\ UNCHANGED <<buildVars, wrapVars, genVars>>

\* fetch rejects, the status is not OK or the body does not parse: the catch
\* block returns the fallback list
BuscarFail(p) ==
  /\ procs[p].pc = "fetching"
  /\ LET k == procs[p].key
     IN /\ procs' = [procs EXCEPT ![p] = [pc |-> "done", key |-> k, ret |-> Some(Fallback(k)), via |-> "fallback"]]
        /\ net' = [net EXCEPT !.fails[k] = @ + 1]
  /\ UNCHANGED <<cache, buildVars, wrapVars, genVars>>

\* limparCache()
limparCache ==
  /\ net.clears < MaxClears
  /\ cache' = EmptyCache
  /\ net' = [NoTraffic EXCEPT !.clears = net.clears + 1, !.total = net.total]
  /\ UNCHANGED <<procs, buildVars, wrapVars, genVars>>

NextLoc ==
  \/ \E p \in Callers, k \in Keys : BuscarStart(p, k)
  \/ \E p \in Callers, body \in ApiEstados \cup UNION {ApiCidades(u) : u \in UFs} : BuscarOk(p, body)
  \/ \E p \in Callers : BuscarFail(p)
  \/ limparCache

SpecLoc == InitLoc /\ [][NextLoc]_vars

(* ======================= properties of the build ======================= *)
RECURSIVE FlatTo(_, _)
FlatTo(pgs, n) == IF n = 0 THEN <<>> ELSE FlatTo(pgs, n - 1) \o pgs[n]
\* every draw call of the document, page by page
AllOps == FlatTo(pages, Len(pages))

RECURSIVE SumTo(_, _)
SumTo(itens, n) == IF n = 0 THEN 0 ELSE SumTo(itens, n - 1) + itens[n].qtd * itens[n].precoUnit
SumItems(itens) == SumTo(itens, Len(itens))

\* drawItemsTable has returned
TableDone ==
  \/ pc \in {"charts", "meta", "save", "done"}
  \/ pc = "failed" /\ error.step \in {"drawCharts", "drawSectionBullets"}

IsTotalsText(o) == o.by = "totals" /\ o.op = "text"
IsRowDesc(o) == o.by = "row" /\ o.x = M + U(2)
IsRowOp(o) == o.by \in {"row", "rowsep"}
IsFooterOp(o) == o.by = "addFooter"
IsFooterNum(o) == o.by = "addFooter" /\ o.op = "text" /\ o.x = A4w - M - U(10)
IsHeaderOp(o) == o.by = "drawTableHeader"
BySeq(ops) == [k \in 1..Len(ops) |-> ops[k].by]

\* the pages allocated by ensureSpace so far
ContinuationPages == IF ctxPage = 0 THEN {} ELSE (ctxPage + 1)..pageRef

\* C1: once drawItemsTable has returned, its subtotal is the sum of
\* qtd * precoUnit over the items, the Subtotal line shows that sum as fmtBRL
\* formats it, and the TOTAL line shows the very same text.
C1_SubtotalIsSum ==
  TableDone =>
    LET t == SelectSeq(AllOps, IsTotalsText) IN
    /\ subtotal = SumItems(data.itens)
    /\ Len(t) = 4
    /\ t[1].txt = <<"Subtotal">>
    /\ t[2].txt = fmtBRL(SumItems(data.itens))
    /\ t[3].txt = <<"TOTAL">>
    /\ t[4].txt = t[2].txt

C1_Witness ==
  /\ pc = "done"
  /\ Len(data.itens) >= 2
  /\ data.itens[1] # data.itens[2]
  /\ subtotal = SumItems(data.itens)
  /\ subtotal > 0

\* C2: at every moment, each page allocated by ensureSpace starts with the
\* complete table header (four titles and the rule), so any row or totals
\* draw on that page comes after the header.
C2_HeaderFirstOnNewPage ==
  \A p \in ContinuationPages :
    /\ Len(pages[p]) >= 5
    /\ \A k \in 1..5 : IsHeaderOp(pages[p][k])
    /\ \A k \in 1..Len(pages[p]) :
         (IsRowOp(pages[p][k]) \/ pages[p][k].by = "totals") => k > 5

C2_Witness ==
  /\ pc = "charts"
  /\ pageRef > ctxPage
  /\ \E k \in 1..Len(pages[pageRef]) : pages[pageRef][k].by = "totals"

\* C3 (as claimed): in the returned document every page except the last
\* carries a footer.
C3_FooterOnEveryPageButLast ==
  pc = "done" =>
    \A p \in 1..(Len(pages) - 1) : \E k \in 1..Len(pages[p]) : IsFooterOp(pages[p][k])

\* C4 (as claimed): every footer shows the 1-based position of the page it
\* is drawn on.
C4_FooterShowsPagePosition ==
  pc = "done" =>
    \A p \in 1..Len(pages) : \A k \in 1..Len(pages[p]) :
      IsFooterNum(pages[p][k]) => pages[p][k].txt = Digits(p)

\* the cover step has been executed
CoverTried == pc \notin {"start", "cover"} /\ error.step # "embedFont"
LogoUndecodable == IsSome(assets.logo) /\ assets.logo[1].fmt \notin {"png", "jpg"}

\* title, three metadata lines, four KPI cards and the divider are on page 1
CoverElementsDrawn ==
  /\ Len(pages) >= 1
  /\ Len(SelectSeq(pages[1], LAMBDA o : o.by = "drawCover" /\ o.op = "text")) = 4
  /\ Len(SelectSeq(pages[1], LAMBDA o : o.by = "drawKpiCard" /\ o.op = "rect")) = 4
  /\ Len(SelectSeq(pages[1], LAMBDA o : o.by = "drawCover" /\ o.op = "line")) = 1

\* C5 (as claimed): with a logo buffer that fails both decodes, the cover
\* step raises no error, draws no image, and draws every other cover element.
C5_BadLogoIsSkipped ==
  (LogoUndecodable /\ CoverTried) =>
    /\ error.step # "drawCover"
    /\ CoverElementsDrawn
    /\ \A k \in 1..Len(pages[1]) : pages[1][k].op # "image"

\* the payback / annual-generation buffer of the asset bundle (None if absent)
PayBuf == IF IsSome(assets.charts) THEN assets.charts[1].paybackChart ELSE None
GenBuf == IF IsSome(assets.charts) THEN assets.charts[1].geracaoAnualChart ELSE None
Decodable(b) == IsSome(b) /\ b[1].fmt \in {"png", "jpg"}
Undecodable(b) == IsSome(b) /\ ~Decodable(b)

\* drawCharts has returned normally; the charts page is the last page
ChartsDrawn ==
  \/ pc \in {"meta", "save", "done"}
  \/ pc = "failed" /\ error.step = "drawSectionBullets"

\* the caption and image draws of the panel whose left edge is x
PanelOps(x) ==
  SelectSeq(pages[Len(pages)],
            LAMBDA o : o.by = "drawCharts" /\ o.x = x /\ (o.op = "image" \/ (o.op = "text" /\ o.size = 10)))
PayX == M
GenX == M + (A4w - M * 2 - U(12)) \div 2 + U(12)
NoteBoxDrawn ==
  /\ \E k \in 1..Len(pages[Len(pages)]) :
       pages[Len(pages)][k].op = "rect" /\ pages[Len(pages)][k].by = "drawCharts"
  /\ \E k \in 1..Len(pages[Len(pages)]) :
       pages[Len(pages)][k].op = "text" /\ pages[Len(pages)][k].txt = <<"Notas e Premissas">>

\* C6: an absent chart image is never the cause of a failure (drawCharts throws
\* only when a chart buffer that is present fails both decodes), and after
\* drawCharts the panel of an absent image has neither caption nor image, the
\* panel of a decodable image has both, and the note box is drawn.
C6_MissingChartOmitsPanel ==
  /\ (pc = "failed" /\ error.step = "drawCharts") => (Undecodable(PayBuf) \/ Undecodable(GenBuf))
  /\ ChartsDrawn =>
       /\ ~IsSome(PayBuf) => PanelOps(PayX) = <<>>
       /\ ~IsSome(GenBuf) => PanelOps(GenX) = <<>>
       /\ Decodable(PayBuf) => BySeq(PanelOps(PayX)) = <<"drawCharts", "drawCharts">>
                               /\ PanelOps(PayX)[2].img = PayBuf[1]
       /\ Decodable(GenBuf) => BySeq(PanelOps(GenX)) = <<"drawCharts", "drawCharts">>
                               /\ PanelOps(GenX)[2].img = GenBuf[1]
       /\ NoteBoxDrawn

C6_Witness ==
  /\ pc = "done"
  /\ IsSome(assets.charts)
  /\ ~IsSome(PayBuf)
  /\ Decodable(GenBuf)
  /\ PanelOps(PayX) = <<>>
  /\ Len(PanelOps(GenX)) = 2

C6_WitnessNoCharts ==
  pc = "done" /\ ~IsSome(assets.charts) /\ NoteBoxDrawn

CeilDiv(a, b) == (a + b - 1) \div b
UsableHeight == A4h - 2 * M

\* C7: when N rows of height 20 exceed the usable height of one page, the
\* built document has at least ceil(N * 20 / usable) pages, and every table
\* page after the first has the table header drawn on it, with no row draw
\* on that page before the header.
C7_EnoughPagesWithHeader ==
  (pc = "done" /\ Len(data.itens) * rowH > UsableHeight) =>
    /\ Len(pages) >= CeilDiv(Len(data.itens) * rowH, UsableHeight)
    /\ \A p \in ContinuationPages :
         /\ \E k \in 1..Len(pages[p]) : IsHeaderOp(pages[p][k]) /\ pages[p][k].op = "line"
         /\ \A k \in 1..Len(pages[p]) :
              IsRowOp(pages[p][k]) =>
                \E h \in 1..(k - 1) : IsHeaderOp(pages[p][h]) /\ pages[p][h].op = "line"

C7_Witness ==
  /\ pc = "done"
  /\ Len(data.itens) * rowH > UsableHeight
  /\ CeilDiv(Len(data.itens) * rowH, UsableHeight) > 3
  /\ ContinuationPages # {}

\* C8: with zero items the table page holds, before its footer, exactly the
\* section title, one table header, and the totals block whose Subtotal and
\* TOTAL values are both "R$ 0,00"; no row text and no row separator is drawn
\* anywhere, and ensureSpace allocated no page.
C8_EmptyTable ==
  (data.itens = <<>> /\ TableDone) =>
    LET tbl == SelectSeq(pages[2], LAMBDA o : ~IsFooterOp(o))
        zero == <<"R", "$", " ", "0", ",", "0", "0">>
    IN /\ BySeq(tbl) = <<"tableTitle",
                         "drawTableHeader", "drawTableHeader", "drawTableHeader", "drawTableHeader",
                         "drawTableHeader",
                         "totals", "totals", "totals", "totals", "totals">>
       /\ tbl[7].txt = <<"Subtotal">> /\ tbl[8].txt = zero
       /\ tbl[9].op = "line"
       /\ tbl[10].txt = <<"TOTAL">> /\ tbl[11].txt = zero
       /\ \A k \in 1..Len(AllOps) : ~IsRowOp(AllOps[k])
       /\ pageRef = 2 /\ ctxPage = 2 /\ ContinuationPages = {}
       /\ Len(pages) <= 3

C8_Witness == pc = "done" /\ data.itens = <<>> /\ subtotal = 0 /\ Len(pages) = 3

\* C9: the k-th row description drawn is the k-th item's description when
\* that has at most 90 characters, and otherwise its first 87 characters
\* followed by three dots; no drawn description is longer than 90.
C9_DescriptionTruncated ==
  LET rows == SelectSeq(AllOps, IsRowDesc) IN
  /\ ctxPage > 0 => Len(rows) = i - 1
  /\ \A k \in 1..Len(rows) :
       LET d == data.itens[k].descricao
           t == rows[k].txt
       IN /\ Len(t) <= 90
          /\ Len(d) <= 90 => t = d
          /\ Len(d) > 90 => /\ Len(t) = 90
                            /\ \A j \in 1..87 : t[j] = d[j]
                            /\ \A j \in 88..90 : t[j] = "."

C9_Witness ==
  /\ pc = "done"
  /\ Len(data.itens) = 2
  /\ Len(data.itens[1].descricao) = MaxDescLen
  /\ Len(data.itens[2].descricao) = 90
  /\ Len(SelectSeq(AllOps, IsRowDesc)) = 2

(* ======================== properties of wrapLines ======================== *)
NoSpace(line) == \A j \in 1..Len(line) : ~IsSpace(line[j])
\* line is one whole whitespace-delimited word of text
IsWordOf(line, text) ==
  /\ line # <<>>
  /\ NoSpace(line)
  /\ \E a \in 1..Len(text) :
       /\ a + Len(line) - 1 <= Len(text)
       /\ SubSeq(text, a, a + Len(line) - 1) = line
       /\ (a = 1 \/ IsSpace(text[a - 1]))
       /\ (a + Len(line) > Len(text) \/ IsSpace(text[a + Len(line)]))
TooWide(line) == textWidth(wIn[1].font, line, wIn[1].size) > wIn[1].maxWidth

\* C10: a line returned by wrapLines is wider than maxWidth only if it is a
\* single whole word of the input.
C10_OnlySingleWordOverflows ==
  IsSome(wOut) =>
    \A k \in 1..Len(wOut[1]) : TooWide(wOut[1][k]) => IsWordOf(wOut[1][k], wIn[1].text)

C10_Witness ==
  /\ IsSome(wOut)
  /\ \E k \in 1..Len(wOut[1]) : TooWide(wOut[1][k])
  /\ \E k \in 1..Len(wOut[1]) : ~NoSpace(wOut[1][k]) /\ ~TooWide(wOut[1][k])

\* line.split(" "): the pieces between single spaces, empty pieces included
SplitOnSpace(line) ==
  LET n == Len(line)
      sp == {k \in 1..n : line[k] = " "}
      Nth(S, j) == CHOOSE x \in S : Cardinality({z \in S : z < x}) = j - 1
      cnt == Cardinality(sp)
      from(j) == IF j = 1 THEN 1 ELSE Nth(sp, j - 1) + 1
      to(j) == IF j = cnt + 1 THEN n ELSE Nth(sp, j) - 1
  IN [j \in 1..(cnt + 1) |-> SubSeq(line, from(j), to(j))]

RECURSIVE ConcatPieces(_, _)
ConcatPieces(lines, n) ==
  IF n = 0 THEN <<>> ELSE ConcatPieces(lines, n - 1) \o SplitOnSpace(lines[n])

\* the whitespace-separated words of text: its maximal runs of non-space characters
WordsOf(text) ==
  LET n == Len(text)
      first == {k \in 1..n : ~IsSpace(text[k]) /\ (k = 1 \/ IsSpace(text[k - 1]))}
      Nth(S, j) == CHOOSE x \in S : Cardinality({z \in S : z < x}) = j - 1
      EndOf(a) == CHOOSE b \in a..n :
                    /\ \A k \in a..b : ~IsSpace(text[k])
                    /\ (b = n \/ IsSpace(text[b + 1]))
  IN [j \in 1..Cardinality(first) |-> SubSeq(text, Nth(first, j), EndOf(Nth(first, j)))]

IsEmptyPiece(w) == w = <<>>
IsWord(w) == w # <<>>

\* C11: splitting the lines returned by wrapLines on single spaces and
\* concatenating the pieces in order gives exactly the whitespace-separated
\* words of the input, also when the input starts or ends with whitespace.
C11_LinesRebuildWords ==
  IsSome(wOut) => ConcatPieces(wOut[1], Len(wOut[1])) = WordsOf(wIn[1].text)

\* What does hold: the non-empty pieces are the words, in order
C11_NonEmptyPiecesAreWords ==
  IsSome(wOut) => SelectSeq(ConcatPieces(wOut[1], Len(wOut[1])), IsWord) = WordsOf(wIn[1].text)

\* The lines that break C11 end with a space left by trailing whitespace
C11_TrailingSpaceLine ==
  /\ IsSome(wOut)
  /\ wOut[1] # <<>>
  /\ wOut[1][Len(wOut[1])][Len(wOut[1][Len(wOut[1])])] = " "

\* C18: wrapLines returns the empty list of lines for the empty string and
\* for a string made only of whitespace.
C18_BlankTextNoLines ==
  (IsSome(wOut) /\ \A k \in 1..Len(wIn[1].text) : IsSpace(wIn[1].text[k])) => wOut[1] = <<>>

C18_Witness ==
  /\ IsSome(wOut)
  /\ Len(wIn[1].text) >= 2
  /\ \A k \in 1..Len(wIn[1].text) : IsSpace(wIn[1].text[k])
  /\ wOut[1] = <<>>

(* ========================= properties of the cover ========================= *)
IsKpiRect(o) == o.by = "drawKpiCard" /\ o.op = "rect"
\* the card rectangles of the cover, in drawing order
KpiCards == SelectSeq(pages[1], IsKpiRect)

\* C12: the cover draws exactly four KPI cards, at x = left margin + 0, 132,
\* 264 and 396, all with the same top y, and the nextX that drawKpiCard returns
\* for a card is the x at which the cover draws the following card.
C12_KpiCardGrid ==
  (CoverTried /\ ~LogoUndecodable) =>
    /\ Len(KpiCards) = 4
    /\ \A k \in 1..4 : KpiCards[k].x = 4000 + (k - 1) * 13200
    /\ \A k \in 1..4 : KpiCards[k].y = KpiCards[1].y /\ KpiCards[k].h = KpiCards[1].h
    /\ \A k \in 1..3 :
         drawKpiCard(pages, 1, KpiCards[k].x, KpiCards[k].y + KpiCards[k].h, "t", <<"v">>, None).nextX
           = KpiCards[k + 1].x

C12_Witness ==
  /\ pc = "itens"
  /\ Len(KpiCards) = 4
  /\ KpiCards[4].x = 43600

(* ========================= properties of pagination ========================= *)
IsHeaderRule(o) == o.by = "drawTableHeader" /\ o.op = "line"
IsBulletOp(o) == o.by \in {"drawBullets", "drawSectionBullets"}
\* the times ensureSpace took its page-break branch: every break draws one
\* header rule, and drawItemsTable draws one more at the top of the table
Overflows == Len(SelectSeq(AllOps, IsHeaderRule)) - 1
Built == pc \in {"meta", "save", "done"}

\* C13: a built document has at least 3 pages, exactly 3 + the number of page
\* breaks ensureSpace made in the items table; the bulleted sections add none,
\* all their content is on the last page.
C13_PageCount ==
  Built =>
    /\ Len(pages) >= 3
    /\ Len(pages) = 3 + Overflows
    /\ \A p \in 1..(Len(pages) - 1) : SelectSeq(pages[p], IsBulletOp) = <<>>
    /\ (Len(data.itens) <= 1 => Len(pages) = 3)

C13_Witness ==
  /\ pc = "done"
  /\ Len(pages) = 6
  /\ Overflows = 3

C13_WitnessBullets ==
  /\ pc = "done"
  /\ Len(pages) = 3
  /\ Len(SelectSeq(pages[3], IsBulletOp)) >= 8

\* C15: a call ensureSpace(cursorY, needed) breaks the page exactly when
\* cursorY - needed < 120.  It then appends one page, makes it pageRef.page,
\* draws the table header on it at y = 841.89 - 40 - 14 and returns that y - 10;
\* otherwise it adds no page, draws no header, leaves pageRef alone and returns
\* cursorY.  drawItemsTable makes one call before each row with needed = 40 and
\* one before the totals block with needed = 90; the row or the Subtotal line
\* is drawn at the returned y.
C15_Step ==
  pc = "rows" =>
    LET isRow == i <= Len(data.itens)
        needed == IF isRow THEN 4000 ELSE 9000
        breaks == cursorY - needed < 12000
        hdr == SelectSeq(AllOps, IsHeaderOp)
        hdr2 == SelectSeq(FlatTo(pages', Len(pages')), IsHeaderOp)
        target == IF isRow THEN ctxPage ELSE pageRef'
        \* the first thing drawn after the call: the row's description or "Subtotal"
        first == IF target = Len(pages') /\ breaks THEN pages'[target][6]
                 ELSE pages'[target][Len(pages[target]) + 1]
    IN /\ first.by = (IF isRow THEN "row" ELSE "totals")
       /\ IF breaks
          THEN /\ Len(pages') = Len(pages) + 1
               /\ pageRef' = Len(pages')
               /\ \A p \in 1..Len(pages) : SelectSeq(pages'[p], IsHeaderOp) = SelectSeq(pages[p], IsHeaderOp)
               /\ BySeq(SubSeq(pages'[pageRef'], 1, 5)) = [k \in 1..5 |-> "drawTableHeader"]
               /\ \A k \in 1..4 : pages'[pageRef'][k].op = "text" /\ pages'[pageRef'][k].y = 78789
               /\ pages'[pageRef'][5].op = "line"
               /\ first.y = 77789
          ELSE /\ Len(pages') = Len(pages)
               /\ pageRef' = pageRef
               /\ hdr2 = hdr
               /\ first.y = cursorY

C15_EnsureSpace == [][C15_Step]_vars

\* a row and a totals block that each caused a page break
C15_Witness ==
  /\ pc = "charts"
  /\ Len(data.itens) = 51
  /\ pageRef = ctxPage + 2

\* a totals block that broke the page although the last row did not
C15_WitnessTotals ==
  /\ pc = "charts"
  /\ Len(data.itens) = 18
  /\ pageRef = ctxPage + 1

(* ===================== properties of buildSolarProposalPDF ===================== *)
IsCircle(o) == o.op = "circle"
BulletCount(o) == IF IsSome(o) THEN Len(o[1]) ELSE 0

\* C14: the build resolves with bytes only after the cover, the items table
\* with its totals, the charts block, the bulleted sections, the three footers
\* and the metadata are all done, and a build in which a step threw (font
\* embedding, image embedding, a draw) has returned no bytes.
C14_NoPartialBytes ==
  /\ IsSome(result) =>
       /\ pc = "done" /\ error = NoError
       /\ IsSome(fonts.helv) /\ IsSome(fonts.helvB)
       /\ CoverElementsDrawn
       /\ Len(SelectSeq(AllOps, IsTotalsText)) = 4
       /\ Len(SelectSeq(AllOps, IsRowDesc)) = Len(data.itens)
       /\ NoteBoxDrawn
       /\ Len(SelectSeq(pages[Len(pages)], IsCircle))
            = BulletCount(data.premissasTecnicas) + BulletCount(data.observacoes)
       /\ Len(SelectSeq(AllOps, IsFooterNum)) = 3
       /\ IsSome(meta)
  /\ error # NoError <=> pc = "failed"
  /\ pc = "failed" => result = None /\ meta = None

\* a build that threw in the last drawing step, with three pages already drawn
C14_Witness ==
  /\ pc = "failed"
  /\ error.step = "drawSectionBullets"
  /\ Len(pages) = 3
  /\ result = None

C14_WitnessBuilt ==
  /\ IsSome(result)
  /\ BulletCount(data.premissasTecnicas) = 2
  /\ BulletCount(data.observacoes) = 1

\* the last three draws on a page are addFooter's, showing page number num
EndsWithFooter(ops, num) ==
  /\ Len(ops) >= 4
  /\ BySeq(SubSeq(ops, Len(ops) - 2, Len(ops))) = <<"addFooter", "addFooter", "addFooter">>
  /\ ops[Len(ops) - 3].by # "addFooter"
  /\ ops[Len(ops)].txt = Digits(num)
  /\ Len(SelectSeq(ops, IsFooterOp)) = 3
\* the stage of the final page a draw belongs to
StageOf(o) ==
  CASE o.by = "drawCharts" -> 1
    [] o.by \in {"drawSectionBullets", "drawBullets"} -> 2
    [] o.by = "addFooter" -> 3
    [] OTHER -> 0
IsSectionTitle(o) == o.by = "drawSectionBullets"
HasBullets(o) == IsSome(o) /\ Len(o[1]) > 0
ExpectedSections ==
  (IF HasBullets(data.premissasTecnicas) THEN <<"Premissas Tecnicas">> ELSE <<>>)
    \o (IF HasBullets(data.observacoes) THEN <<"Observacoes">> ELSE <<>>)

\* C16: both fonts are embedded before any page exists; page 1 gets the cover
\* and then footer 1; the items table starts on page 2 and footer 2 is drawn,
\* after the totals, on the page pageRef holds when the table ends; the charts
\* page comes after every table page, gets the charts block, then the
\* technical-assumptions section, then the observations section (each only if
\* it has items), then footer 3, and is the last page.
C16_FixedOrder ==
  /\ Len(pages) > 0 => IsSome(fonts.helv) /\ IsSome(fonts.helvB)
  /\ (CoverTried /\ ~LogoUndecodable) =>
       /\ EndsWithFooter(pages[1], 1)
       /\ \A k \in 1..(Len(pages[1]) - 3) : pages[1][k].by \in {"drawCover", "drawKpiCard"}
  /\ ctxPage # 0 =>
       /\ ctxPage = 2
       /\ pages[2][1].by = "tableTitle"
       /\ \A p \in 2..pageRef : \A k \in 1..Len(pages[p]) :
            pages[p][k].by \in {"tableTitle", "drawTableHeader", "row", "rowsep", "totals", "addFooter"}
  /\ pc = "rows" => \A p \in 2..Len(pages) : SelectSeq(pages[p], IsFooterOp) = <<>>
  /\ TableDone =>
       /\ EndsWithFooter(pages[pageRef], 2)
       /\ pages[pageRef][Len(pages[pageRef]) - 3].by = "totals"
       /\ \A p \in 2..(pageRef - 1) : SelectSeq(pages[p], IsFooterOp) = <<>>
  /\ pc = "charts" => Len(pages) = pageRef
  /\ Built =>
       LET last == pages[Len(pages)] IN
       /\ Len(pages) = pageRef + 1
       /\ EndsWithFooter(last, 3)
       /\ \A k \in 1..Len(last) : StageOf(last[k]) # 0
       /\ \A k \in 1..(Len(last) - 1) : StageOf(last[k]) <= StageOf(last[k + 1])
       /\ [k \in 1..Len(SelectSeq(last, IsSectionTitle)) |-> SelectSeq(last, IsSectionTitle)[k].txt[1]]
            = ExpectedSections

C16_Witness ==
  /\ pc = "done"
  /\ ExpectedSections = <<"Premissas Tecnicas", "Observacoes">>
  /\ Len(data.itens) = 1

C16_WitnessManyPages ==
  /\ pc = "done"
  /\ Len(pages) = 5

(* ======================= properties of image embedding ======================= *)
\* the decoder calls the claim allows for one embedImageFlexible(bytes)
ExpectedCalls(b) ==
  IF ~IsSome(b) THEN <<>>
  ELSE IF b[1].fmt = "png" THEN <<[fn |-> "embedPng", bytes |-> b]>>
  ELSE <<[fn |-> "embedPng", bytes |-> b], [fn |-> "embedJpg", bytes |-> b]>>
\* the decoder calls of the cover step, and of the charts step
CoverCalls == ExpectedCalls(assets.logo)
ChartsCalls ==
  ExpectedCalls(PayBuf) \o (IF Undecodable(PayBuf) THEN <<>> ELSE ExpectedCalls(GenBuf))
ChartsTried == ChartsDrawn \/ (pc = "failed" /\ error.step = "drawCharts")
IsImage(o) == o.op = "image"

\* C17: embedImageFlexible makes no decode attempt and returns undefined for an
\* absent buffer; for a buffer it calls the PNG decoder first and the JPEG
\* decoder only if PNG failed, returns the first success (the image drawn is
\* the decoded buffer), and throws exactly when both decoders failed.
C17_DecodeOrder ==
  /\ ~CoverTried => decodes = <<>>
  /\ (CoverTried /\ ~ChartsTried) => decodes = CoverCalls
  /\ ChartsTried => decodes = CoverCalls \o ChartsCalls
  /\ CoverTried =>
       /\ (pc = "failed" /\ error.step = "drawCover") <=> LogoUndecodable
       /\ (pc = "failed" /\ error.step = "drawCover") => error.err = "embedJpg"
       /\ ~LogoUndecodable =>
            SelectSeq(pages[1], IsImage) =
              (IF IsSome(assets.logo)
               THEN <<ImageOp("drawCover", assets.logo[1], 4000, 80189 - (assets.logo[1].height * 14000) \div assets.logo[1].width,
                              14000, (assets.logo[1].height * 14000) \div assets.logo[1].width)>>
               ELSE <<>>)
  /\ ChartsTried =>
       /\ (pc = "failed" /\ error.step = "drawCharts") <=> (Undecodable(PayBuf) \/ Undecodable(GenBuf))
       /\ ChartsDrawn =>
            [k \in 1..Len(SelectSeq(pages[Len(pages)], IsImage)) |-> SelectSeq(pages[Len(pages)], IsImage)[k].img]
              = (IF IsSome(PayBuf) THEN <<PayBuf[1]>> ELSE <<>>) \o (IF IsSome(GenBuf) THEN <<GenBuf[1]>> ELSE <<>>)

\* a JPEG logo decoded at the second attempt, and a chart that failed both
C17_Witness ==
  /\ pc = "failed" /\ error.step = "drawCharts"
  /\ IsSome(assets.logo) /\ assets.logo[1].fmt = "jpg"
  /\ Len(decodes) >= 4

C17_WitnessNoBuffer ==
  /\ pc = "done"
  /\ ~IsSome(assets.logo) /\ ~IsSome(assets.charts)
  /\ decodes = <<>>

(* ===================== properties of the bulleted sections ===================== *)
LastPage == pages[Len(pages)]
IsNoteBox(o) == o.by = "drawCharts" /\ o.op = "rect"
IsNoteHeading(o) == o.by = "drawCharts" /\ o.op = "text" /\ o.txt = <<"Notas e Premissas">>
\* the positions on the last page of the draws that satisfy Test
Where(Test(_)) == {k \in 1..Len(LastPage) : Test(LastPage[k])}

\* the note box and its heading are drawn before any bullet content
C19_BoxBeforeBullets ==
  ChartsDrawn =>
    /\ Cardinality(Where(IsNoteBox)) = 1 /\ Cardinality(Where(IsNoteHeading)) = 1
    /\ \A b \in Where(IsNoteBox) \cup Where(IsNoteHeading) : \A k \in Where(IsBulletOp) : b < k

\* C19: every draw of the technical-assumptions and observations sections on
\* the last page lies vertically inside the 120-unit note box of drawCharts,
\* whatever the number of bullets, and the box and its heading are drawn before
\* any of them.
C19_BulletsInsideNoteBox ==
  ChartsDrawn =>
    /\ C19_BoxBeforeBullets
    /\ \A b \in Where(IsNoteBox) : \A k \in Where(IsBulletOp) :
         /\ LastPage[b].h = 12000
         /\ LastPage[b].y <= LastPage[k].y
         /\ LastPage[k].y <= LastPage[b].y + LastPage[b].h

\* one single-line bullet in one section is the case that does stay inside
C19_OneBulletFits ==
  (pc = "done" /\ BulletCount(data.premissasTecnicas) + BulletCount(data.observacoes) = 1
     /\ Cardinality(Where(IsBulletOp)) = 3) =>
    \A b \in Where(IsNoteBox) : \A k \in Where(IsBulletOp) :
      LastPage[b].y <= LastPage[k].y /\ LastPage[k].y <= LastPage[b].y + LastPage[b].h

IsBulletDraw(o) == o.by = "drawBullets"
IsBulletText(o) == o.by = "drawBullets" /\ o.op = "text"
IsBulletDot(o) == o.by = "drawBullets" /\ o.op = "circle"
\* the bullet draws of the section whose title is draw t of the last page
SectionDraws(t) ==
  {k \in Where(IsBulletDraw) : k > t /\ \A t2 \in Where(IsSectionTitle) : t2 > t => k < t2}
\* startY - 18 - sum over the items of (12 + 14 * lines of the item)
SectionEnd(t) ==
  LastPage[t].y - 1800
    - 1200 * Cardinality(SectionDraws(t) \cap Where(IsBulletDot))
    - 1400 * Cardinality(SectionDraws(t) \cap Where(IsBulletText))

\* C20: drawSectionBullets started at startY over items that wrap to
\* k_1..k_n lines (each k_i >= 1) returns startY - 18 - sum(12 + 14 * k_i).
\* The value is seen in what the build does with it: after the first section
\* it starts the next one 12 units lower, and the last one leaves the cursor.
C20_SectionAdvance ==
  Built =>
    \A t \in Where(IsSectionTitle) :
      /\ Cardinality(SectionDraws(t) \cap Where(IsBulletDot)) >= 1
      /\ Cardinality(SectionDraws(t) \cap Where(IsBulletText))
           >= Cardinality(SectionDraws(t) \cap Where(IsBulletDot))
      /\ IF \E t2 \in Where(IsSectionTitle) : t2 > t
         THEN \A t2 \in Where(IsSectionTitle) : t2 > t => LastPage[t2].y = SectionEnd(t) - 1200
         ELSE y = (IF LastPage[t].txt = <<"Premissas Tecnicas">> THEN SectionEnd(t) - 1200 ELSE SectionEnd(t))

\* two sections: items of 2 and 1 lines, then an item of 2 lines
C20_Witness ==
  /\ pc = "done"
  /\ Cardinality(Where(IsSectionTitle)) = 2
  /\ Cardinality(Where(IsBulletDot)) = 3
  /\ Cardinality(Where(IsBulletText)) = 5
  /\ y = 41189 - 1800 - (1200 + 2 * 1400) - (1200 + 1400) - 1200 - 1800 - (1200 + 2 * 1400)

(* ========================= properties of the inputs ========================= *)
\* C21: no step of buildSolarProposalPDF changes its arguments: the data
\* record, with every item's descricao, qtd and precoUnit (also for an item
\* whose description is drawn truncated), and the asset bundle keep their
\* values in builds that succeed and in builds that fail.
C21_Step == data' = data /\ assets' = assets
C21_InputsUnchanged == [][C21_Step]_vars

\* a finished build that drew a truncated description, the item still whole
C21_Witness ==
  /\ pc = "done"
  /\ Len(data.itens) = 1
  /\ Len(data.itens[1].descricao) = MaxDescLen
  /\ \E k \in 1..Len(pages[2]) : IsRowDesc(pages[2][k]) /\ Len(pages[2][k].txt) = 90

C21_WitnessFailed ==
  /\ pc = "failed" /\ error.step = "drawSectionBullets"
  /\ Len(data.itens) = 1
  /\ Len(data.itens[1].descricao) = MaxDescLen

(* ===================== properties of the rows of the table ===================== *)
\* C24: every row of drawItemsTable (four cell texts and the separator) is
\* drawn on the page pageRef holds at that moment, so right after a row has
\* been drawn its five draws are the last ones on pageRef's page and, after a
\* page break, no row goes to an earlier page.
C24_RowsOnActivePage ==
  (pc = "rows" /\ i > 1) =>
    LET ops == pages[pageRef]
        n == Len(ops)
    IN /\ n >= 5
       /\ BySeq(SubSeq(ops, n - 4, n)) = <<"row", "row", "row", "row", "rowsep">>

\* what the code does: every row is on the page the table started on
C24_RowsOnFirstTablePage ==
  ctxPage # 0 =>
    /\ Len(SelectSeq(pages[ctxPage], IsRowDesc)) = i - 1
    /\ \A p \in 1..Len(pages) : p # ctxPage => SelectSeq(pages[p], IsRowOp) = <<>>

IsRowText(o) == o.by = "row" /\ o.op = "text"
IsRowSep(o) == o.by = "rowsep"
IsTotalsOp(o) == o.by = "totals"
IsFooterRule(o) == o.by = "addFooter" /\ o.op = "line"
IsSubtotalLabel(o) == o.by = "totals" /\ o.op = "text" /\ o.txt = <<"Subtotal">>

\* C25: every row is drawn at a cursor y >= 160 and the totals block starts at
\* a cursor y >= 210, so the row texts, the row separators, the Subtotal and
\* TOTAL lines and the rule between them all lie above the footer divider,
\* which is at y = 64.
C25_TableAboveFooter ==
  \A p \in 1..Len(pages) : \A k \in 1..Len(pages[p]) :
    LET o == pages[p][k] IN
    /\ IsRowText(o) => o.y >= 16000
    /\ IsRowSep(o) => o.y > 6400 /\ o.y2 > 6400
    /\ IsSubtotalLabel(o) => o.y >= 21000
    /\ IsTotalsOp(o) => o.y > 6400
    /\ IsFooterRule(o) => o.y = 6400 /\ o.y2 = 6400

\* the lowest row of a first table page and a totals block after it
C25_Witness ==
  /\ pc = "charts"
  /\ \E k \in 1..Len(pages[ctxPage]) : IsRowText(pages[ctxPage][k]) /\ pages[ctxPage][k].y = 16589
  /\ \E k \in 1..Len(pages[pageRef]) : IsSubtotalLabel(pages[pageRef][k]) /\ pages[pageRef][k].y = 77789

(* ======================= properties of the page count ======================= *)
\* page breaks made before rows once the first n items are drawn: 20 rows fit
\* under the first header and 31 under each continuation header
RowBreaks(n) == IF n <= 20 THEN 0 ELSE ((n - 21) \div 31) + 1
\* the rows drawn under the last header
RowsUnderLastHeader(n) == IF n <= 20 THEN n ELSE ((n - 21) % 31) + 1
TotalsBreak(n) ==
  IF n <= 20 THEN RowsUnderLastHeader(n) \in 17..20 ELSE RowsUnderLastHeader(n) \in 29..31
ExpectedPages(n) == 3 + RowBreaks(n) + (IF TotalsBreak(n) THEN 1 ELSE 0)

\* C26: the page count of a built document depends on the item count N only:
\* the rows break the page exactly before items 21, 52, 83, ..., the totals
\* check adds one more page exactly when 17..20 rows (first table page) or
\* 29..31 rows (continuation page) are under the last header; N <= 16 gives 3
\* pages and 17 <= N <= 20 gives 4.
C26_PageCountByItems ==
  /\ pc = "rows" => pageRef - ctxPage = RowBreaks(i - 1)
  /\ TableDone => pageRef - ctxPage = RowBreaks(Len(data.itens)) + (IF TotalsBreak(Len(data.itens)) THEN 1 ELSE 0)
  /\ Built =>
       /\ Len(pages) = ExpectedPages(Len(data.itens))
       /\ Len(data.itens) <= 16 => Len(pages) = 3
       /\ Len(data.itens) \in 17..20 => Len(pages) = 4

\* 52 items: breaks before items 21 and 52, one row under the last header
C26_Witness ==
  /\ pc = "done"
  /\ Len(data.itens) = 52
  /\ Len(pages) = 5

\* 51 items: 31 rows under the last header, the totals take a page of their own
C26_WitnessTotals ==
  /\ pc = "done"
  /\ Len(data.itens) = 51
  /\ Len(pages) = 5

(* ==================== properties of the horizontal layout ==================== *)
IsRule(o) == o.op = "line" /\ o.by \in {"drawTableHeader", "totals", "rowsep"}
\* the right end of a right-aligned text drawn by drawItemsTable
RightEnd(o) == o.x + textWidth(o.font, o.txt, o.size)

\* C27: the items table stays inside the horizontal margins: the right end of
\* the header rule (left margin + the four column widths), which is also the
\* right edge of the Total column, is not beyond page width - right margin and
\* is where the row separators and the totals block end.
C27_TableWithinMargins ==
  \A p \in 1..Len(pages) : \A k \in 1..Len(pages[p]) :
    LET o == pages[p][k] IN
    /\ IsHeaderRule(o) => o.x = 4000 /\ o.x2 = 4000 + 30000 + 6000 + 9000 + 9000 /\ o.x2 <= 59528 - 4000
    /\ IsRule(o) => o.x2 = 4000 + 30000 + 6000 + 9000 + 9000
    /\ (IsTotalsText(o) /\ o.x # 59528 - 4000 - 22000) => RightEnd(o) = 4000 + 30000 + 6000 + 9000 + 9000

\* what the code does: the header rule and the Total column end at x = 580,
\* the separators and the totals block at page width - margin = 555.28
C27_TableEdges ==
  \A p \in 1..Len(pages) : \A k \in 1..Len(pages[p]) :
    LET o == pages[p][k] IN
    /\ IsHeaderRule(o) => o.x2 = 58000
    /\ (IsRule(o) /\ ~IsHeaderRule(o)) => o.x2 = 55528
    /\ (IsTotalsText(o) /\ o.x # 59528 - 4000 - 22000) => RightEnd(o) = 55528
    /\ (IsRowText(o) /\ o.x > 4000 + 30000 + 6000 + 9000) => RightEnd(o) = 58000 - 200

\* C28: the four KPI cards of the cover stay inside the horizontal margins:
\* the right edge of every card, and so of the fourth one at left margin + 396
\* + 120, is not beyond page width - right margin.
C28_KpiCardsWithinMargins ==
  (CoverTried /\ ~LogoUndecodable) =>
    /\ Len(KpiCards) = 4
    /\ KpiCards[4].x + KpiCards[4].w = 4000 + 39600 + 12000
    /\ \A k \in 1..4 : KpiCards[k].x >= 4000 /\ KpiCards[k].x + KpiCards[k].w <= 59528 - 4000

\* the first three cards are inside the margins, the fourth is not
C28_ThreeCardsFit ==
  (CoverTried /\ ~LogoUndecodable) =>
    /\ \A k \in 1..3 : KpiCards[k].x + KpiCards[k].w <= 59528 - 4000
    /\ KpiCards[4].x + KpiCards[4].w = 55600

(* ===================== properties of the chart generators ===================== *)
\* the values a call works with once the defaults are applied
GAnos == OrDefault(gIn[1].anos, Num(25000))
GDegradacao == OrDefault(gIn[1].degradacaoAnual, Num(5))
Positive(x) == ~x.nan /\ x.v > 0
Within(x, lo, hi) == ~x.nan /\ lo <= x.v /\ x.v <= hi
\* the inputs the claim calls invalid
InvalidChartInput ==
  IF gIn[1].fn = "generatePaybackChart"
  THEN ~Positive(gIn[1].capexBRL) \/ ~Positive(gIn[1].economiaAnualBRL) \/ ~Within(GAnos, 1000, 50000)
  ELSE ~Positive(gIn[1].energiaMensalKWh) \/ ~Within(GAnos, 1000, 50000) \/ ~Within(GDegradacao, 0, 50)
Validated == IsSome(gIn) /\ gen.pc \notin {"idle", "validate"}
RejectedBeforeDrawing == gen.pc = "failed" /\ gen.canvases = 0 /\ gen.charts = 0 /\ gen.out = None

\* C22: generatePaybackChart and generateGeracaoAnualChart reject invalid
\* input before any drawing: a non-positive capex, annual saving or monthly
\* energy, a horizon outside 1..50 years or a degradation outside [0, 0.05]
\* makes the call fail with no canvas and no chart created.
C22_InvalidInputRejected ==
  (Validated /\ InvalidChartInput) => RejectedBeforeDrawing

\* what the code does: the order is as claimed, every rejection comes before
\* createCanvas, and the claim's conditions are enforced for whole years and
\* for degradations that are numbers
C22_RejectionComesFirst ==
  Validated =>
    /\ (validate(gIn[1]) # "ok") <=> RejectedBeforeDrawing
    /\ (InvalidChartInput /\ ~RejectedBeforeDrawing) =>
         \/ Within(GAnos, 1, 999)
         \/ (gIn[1].fn = "generateGeracaoAnualChart" /\ GDegradacao.nan)

\* the horizon of half a year that gets a canvas
C22_HalfYearAccepted ==
  /\ Validated
  /\ GAnos = Num(500)
  /\ gen.canvases = 1

(* ===================== properties of the location cache ===================== *)
\* a call for key k is made in this step
CallMade(k) == net'.calls[k] = net.calls[k] + 1
Fetching(k) == \E p \in Callers : procs[p].pc = "fetching" /\ procs[p].key = k
\* caller p returns from the cache in this step / completes a fetch in this step
ServedFromCache(p, k) ==
  procs'[p] = [pc |-> "done", key |-> k, ret |-> CacheGet(cache, k), via |-> "cache"]
Completes(p, via) == procs[p].pc = "fetching" /\ procs'[p].pc = "done" /\ procs'[p].via = via
RequestIssued(k) == net'.requests[k] = net.requests[k] + 1

\* C23: once a call for a key has completed with a successful fetch, every
\* later call for the key returns the cached list and issues no request, until
\* limparCache is called; the first call for the key after limparCache fetches
\* again.
C23_Step ==
  \A k \in Keys :
    CallMade(k) =>
      /\ net.oks[k] > 0 =>
           /\ net'.requests = net.requests
           /\ IsSome(CacheGet(cache, k))
           /\ \E p \in Callers : ServedFromCache(p, k)
      /\ (net.clears > 0 /\ net.calls[k] = 0) => RequestIssued(k)
C23_CachedUntilCleared == [][C23_Step]_vars

\* what does hold: the first half, and the second half when no request for
\* the key was in flight across limparCache
C23_StepNoStaleResponse ==
  \A k \in Keys :
    CallMade(k) =>
      /\ net.oks[k] > 0 =>
           /\ net'.requests = net.requests
           /\ \E p \in Callers : ServedFromCache(p, k)
      /\ (net.clears > 0 /\ net.calls[k] = 0 /\ net.oks[k] = 0) => RequestIssued(k)
C23_CachedUntilClearedNoStale == [][C23_StepNoStaleResponse]_vars

\* C29: the cache only ever receives the result of a successful fetch: a call
\* whose fetch fails returns the fallback list of its key and leaves the cache
\* as it was, the cache changes only by a successful fetch storing its list or
\* by limparCache, so a key whose fetch failed stays absent and a call made
\* while it is absent issues a request again.
C29_Step ==
  /\ \A p \in Callers :
       Completes(p, "fallback") =>
         /\ cache' = cache
         /\ procs'[p].ret = Some(Fallback(procs[p].key))
  /\ cache' # cache =>
       \/ cache' = EmptyCache /\ net'.clears = net.clears + 1
       \/ \E p \in Callers :
            /\ Completes(p, "fetch")
            /\ net'.oks[procs[p].key] = net.oks[procs[p].key] + 1
            /\ cache' = CachePut(cache, procs[p].key, procs'[p].ret[1])
  /\ \A k \in Keys :
       (CallMade(k) /\ ~IsSome(CacheGet(cache, k))) =>
         /\ RequestIssued(k)
         /\ \E p \in Callers : procs'[p].pc = "fetching" /\ procs'[p].key = k
C30_AtMostOneRequest ==
  \A k \in Keys : (net.fails[k] = 0 /\ ~Fetching(k)) => net.requests[k] <= 1

\* what does hold: calls that do not overlap issue one request
C30_TwoRequestsOverlap ==
  [][\A k \in Keys :
       (RequestIssued(k) /\ net.requests[k] >= 1 /\ net.fails[k] = 0 /\ net.oks[k] = 0) => Fetching(k)]_vars

====
